---- MODULE Spec2Model ----
(***************************************************************************)
(* Model of the AlgoManager trade manager core (Trade_Manager.py) with the *)
(* parts of its collaborators it relies on: the config file written by the *)
(* dashboard (components/utils.py), the trades table of the persistence    *)
(* layer (components/database.py) and the broker terminal (positions,      *)
(* deal history, order submission).                                        *)
(*                                                                         *)
(* Volumes are in hundredths of a lot (5 is 0.05, 10 is 0.10). Prices and   *)
(* price distances are in ten-thousandths (11000 is 1.1000, 50000 is 5.0).  *)
(* Amounts of deals are in thousandths of the account currency (1000 is     *)
(* 1.00, -4 is -0.004), times in seconds.                                   *)
(***************************************************************************)
EXTENDS Integers, Sequences, FiniteSets, TLC

(* ------------------------------ bounds -------------------------------- *)

\* Tickets the broker hands out in one behaviour of Spec and of SpecRestart.
MaxTickets == 1
\* Tickets the broker hands out in one behaviour of SpecBasket.
MaxBasket == 2
\* Distinct modification times the config file takes in one behaviour.
MaxMtime == 2
\* Steps the clock takes in one behaviour of SpecRestart.
MaxTicks == 4
\* Crashes of the dashboard in one behaviour of SpecLauncher.
MaxRestarts == 2

Tickets == 1..(IF MaxTickets > MaxBasket THEN MaxTickets ELSE MaxBasket)

(* ------------------------- configuration documents -------------------- *)

NoStrategies == [s \in {} |-> 0]

\* The account the operator authorizes (system.authorized_account_number) and
\* another account the terminal may be logged in to.
AuthorizedAccount == 111
OtherAccount == 222

NoRisk == [basket_enabled |-> FALSE, basket_take_profit_usd |-> 0, basket_stop_loss_usd |-> 0]

\* config = {} at module load (Trade_Manager.py line 16); also the parse of "{}".
\* authorized_account_number is the key of the system section; 0 stands for a
\* section without it (sys_conf.get gives None). risk_management is the
\* top-level key of that name, system_risk_management the key risk_management
\* inside the system section; NoRisk stands for an absent block.
EmptyConfig ==
    [system |-> FALSE, authorized_account_number |-> 0, system_risk_management |-> NoRisk,
     hasStrategies |-> FALSE, strategies |-> NoStrategies, risk_management |-> NoRisk]

\* trade_limits of a strategy: sl_points 5 and tp_points 10 as the file gives them.
LimitsA == [sl_points |-> 50000, tp_points |-> 100000]

\* limits.get('sl_points', 0) and limits.get('tp_points', 1.0) on an empty
\* trade_limits (settings.get('trade_limits', {})).
DefaultLimits == [sl_points |-> 0, tp_points |-> 10000]

SettingsA(en) == [enabled |-> en, volume |-> 10, magic_number |-> 1001, trade_limits |-> LimitsA]
SettingsB == [enabled |-> TRUE, volume |-> 20, magic_number |-> 1002, trade_limits |-> DefaultLimits]

\* The strategies section: B is always configured, A is enabled, disabled or absent.
StrategiesSection(a) ==
    IF a = "absent" THEN [s \in {"B"} |-> SettingsB]
    ELSE [s \in {"A", "B"} |-> IF s = "A" THEN SettingsA(a = "on") ELSE SettingsB]

BasketRisk == [basket_enabled |-> TRUE, basket_take_profit_usd |-> 50, basket_stop_loss_usd |-> -50]

\* The same thresholds with the basket switched off.
DisabledRisk == [BasketRisk EXCEPT !.basket_enabled = FALSE]

Document(a, risk) ==
    [system |-> TRUE, authorized_account_number |-> AuthorizedAccount,
     system_risk_management |-> NoRisk, hasStrategies |-> TRUE,
     strategies |-> StrategiesSection(a), risk_management |-> risk]

\* The document d with its risk-management block moved into the system section.
InSystemSection(d) ==
    [d EXCEPT !.system_risk_management = d.risk_management, !.risk_management = NoRisk]

\* A document whose system section names no authorized account.
Unguarded(d) == [d EXCEPT !.authorized_account_number = 0]

\* Complete documents: both top-level sections present.
ValidDocs ==
    {Document("on", BasketRisk), Document("off", BasketRisk), Unguarded(Document("on", DisabledRisk))}

\* A complete document in which the tag numbers of A and B are exchanged.
ReassignedDoc ==
    [Document("on", BasketRisk) EXCEPT
        !.strategies = [s \in {"A", "B"} |->
                           IF s = "A" THEN [SettingsA(TRUE) EXCEPT !.magic_number = 1002]
                           ELSE [SettingsB EXCEPT !.magic_number = 1001]]]

\* Documents that parse as JSON but lack a required top-level section.
IncompleteDocs ==
    {[Document("off", NoRisk) EXCEPT !.system = FALSE],
     [EmptyConfig EXCEPT !.system = TRUE]}

\* What the config file can hold: nothing (deleted), text that is not JSON (among
\* others the file as save_config leaves it between open(.., "w") and the end of
\* json.dump), or a JSON document.
JsonFile(d) == [kind |-> "json", json |-> d]

FileContents ==
    {[kind |-> "missing", json |-> EmptyConfig], [kind |-> "garbage", json |-> EmptyConfig]}
    \cup {JsonFile(d) : d \in ValidDocs \cup IncompleteDocs}

(* ------------------------------- state -------------------------------- *)

VARIABLES
    pc,                 \* "down" (no core process) or the loop phase about to run
    config,             \* Trade_Manager.config
    last_config_mtime,  \* Trade_Manager.last_config_mtime
    tracked_tickets,    \* Trade_Manager.tracked_tickets: ticket -> strategy id
    trade_metadata,     \* Trade_Manager.trade_metadata: ticket -> extra_metrics
    system_locked,      \* Trade_Manager.system_locked
    file,               \* content of system_config.json
    fileMtime,          \* its modification time
    positions,          \* broker: per ticket, the position and its deal history
    trades,             \* persistence: rows of the trades table
    reconciled,         \* tickets reconciliation has finished with (history)
    io,                 \* the request, replies, order and broker answer of the latest intake step
    gov,                \* what the latest governor cycle did
    last_snapshot_time, \* Trade_Manager.last_snapshot_time
    equity_history,     \* persistence: the timestamps of the rows of equity_history
    written,            \* the timestamps of the rows the running process wrote (history)
    account,            \* broker: the account the terminal is logged in to
    now,                \* the clock (time.time(), datetime.now()), in seconds
    caller,             \* a signal engine: its REQ socket and the request it has under way
    launcher            \* Launcher.main: its position and the processes it started

vars == <<pc, config, last_config_mtime, tracked_tickets, trade_metadata, system_locked,
          file, fileMtime, positions, trades, reconciled, io, gov,
          last_snapshot_time, equity_history, written, account, now, caller, launcher>>

coreVars == <<config, last_config_mtime, tracked_tickets, trade_metadata, system_locked,
              last_snapshot_time, written>>

\* What only the snapshot phase and the clock change.
clockVars == <<equity_history, account, now>>

\* The processes around the core.
peerVars == <<caller, launcher>>

(* ----------------------------- Config Store --------------------------- *)

\* get_file_mtime: 0 for a missing file.
get_file_mtime(f, mt) == IF f.kind = "missing" THEN 0 ELSE mt

\* load_config with a plausible slip: an incomplete document is taken over.
load_config_NoSectionCheck(cfg, last, f, mt) ==
    IF f.kind = "missing" THEN [config |-> cfg, last |-> last, ok |-> FALSE]
    ELSE IF get_file_mtime(f, mt) > last
         THEN IF f.kind = "garbage"
              THEN [config |-> cfg, last |-> last, ok |-> FALSE]
              ELSE [config |-> f.json, last |-> get_file_mtime(f, mt), ok |-> TRUE]
         ELSE [config |-> cfg, last |-> last, ok |-> cfg # EmptyConfig]

\* load_config: the configuration, last_config_mtime and return value it leaves.
load_config(cfg, last, f, mt) ==
    IF f.kind = "missing" THEN [config |-> cfg, last |-> last, ok |-> FALSE]
    ELSE IF get_file_mtime(f, mt) > last
         THEN IF f.kind = "garbage"
              THEN [config |-> cfg, last |-> last, ok |-> FALSE]
              ELSE IF f.json.system /\ f.json.hasStrategies
                   THEN [config |-> f.json, last |-> get_file_mtime(f, mt), ok |-> TRUE]
                   ELSE [config |-> cfg, last |-> last, ok |-> cfg # EmptyConfig]
         ELSE [config |-> cfg, last |-> last, ok |-> cfg # EmptyConfig]

\* config.get('strategies', {})
StrategiesOf(cfg) == IF cfg.hasStrategies THEN cfg.strategies ELSE NoStrategies

(* ------------------------------- broker ------------------------------- *)

\* What history_deals_get(position=ticket) shows of a position once an exit deal
\* (DEAL_ENTRY_OUT or INOUT) has posted: whether an entry deal (DEAL_ENTRY_IN) is
\* among the deals and its time, and time, profit, swap, commission and reason
\* code of the first exit deal.
History(entry, entry_time, exit_time, profit, swap, commission, reason) ==
    [entry |-> entry, entry_time |-> entry_time, exit_time |-> exit_time,
     profit |-> profit, swap |-> swap, commission |-> commission, reason |-> reason]

\* No exit deal has posted.
NoHistory == History(TRUE, 0, 0, 0, 0, 0, "")

\* The history of a position closed by hand after a minute, without costs.
PlainHistory == History(TRUE, 100, 160, 1000, 0, 0, "CLIENT")

\* Histories with an amount below a hundredth, with a stop loss hit within the
\* second of the entry, without entry deal, and with a reason code other than
\* client, stop loss and take profit (expert: an order sent by a program).
Histories ==
    {History(TRUE, 100, 160, 1000, -4, -70, "CLIENT"),
     History(TRUE, 100, 100, -500, 0, 0, "SL"),
     History(FALSE, 0, 160, 250, 0, -30, "TP"),
     History(TRUE, 100, 130, -996, 0, 0, "EXPERT")}

\* A ticket's position at the broker. status: "none" (ticket not handed out yet),
\* "open" (listed by positions_get), "reduced" (listed by positions_get after a
\* partial close, whose exit deal is in the history), "closed" (no longer listed;
\* history_deals_get shows no exit deal yet), "settled" (no longer listed; an
\* exit deal is in the history). magic and comment are those of the opening
\* order, as are type and volume; history is what the deal history shows;
\* closedDown records that the position closed while no core process was running.
NoPosition ==
    [status |-> "none", type |-> "", volume |-> 0, magic |-> 0, comment |-> "",
     history |-> NoHistory, closedDown |-> FALSE]

\* The positions with direction and volume left out, for a specification that
\* looks at neither.
Unobserved(pos) == [t \in Tickets |-> [pos[t] EXCEPT !.type = "", !.volume = 0]]

\* The tickets positions_get lists.
LiveTickets(pos) == {t \in Tickets : pos[t].status \in {"open", "reduced"}}

\* history_deals_get shows an exit deal for the position.
HasExitDeal(p) == p.status \in {"reduced", "settled"}

\* A listed position after it has closed: the exit deal of a partial close is
\* already in the history, that of the full close posts later.
Closed(p) == [p EXCEPT !.status = IF p.status = "reduced" THEN "settled" ELSE "closed"]

FreeTickets(pos) == {t \in Tickets : pos[t].status = "none"}

\* The broker numbers positions in increasing order.
NextTicket(pos) ==
    IF FreeTickets(pos) = {} THEN 0
    ELSE CHOOSE t \in FreeTickets(pos) : \A u \in FreeTickets(pos) : t <= u

(* ------------------------------ signals ------------------------------- *)

\* A request as received on the intake socket: the keys the JSON object carries
\* and their values (a value of an absent key is not read). volume.numeric says
\* whether float() accepts the value.
Sig(keys, sid, act, vol, numeric, metrics) ==
    [keys |-> keys, strategy_id |-> sid, symbol |-> "EURUSD", action |-> act,
     volume |-> [numeric |-> numeric, value |-> vol], dynamic_tp |-> 0,
     extra_metrics |-> metrics]

\* The payload of the velocity engine (Signal_Velocity.py lines 343-347) carries
\* dynamic_tp next to volume.
WithDynamicTp(sig, tp) == [sig EXCEPT !.keys = @ \cup {"dynamic_tp"}, !.dynamic_tp = tp]

BaseKeys == {"strategy_id", "symbol", "action"}

Signals ==
    {Sig(BaseKeys, "A", "BUY", 0, TRUE, ""),
     WithDynamicTp(Sig(BaseKeys \cup {"volume", "extra_metrics"}, "A", "SELL", 5, TRUE, "m1"), 20000),
     Sig(BaseKeys \cup {"volume"}, "A", "BUY", 0, TRUE, ""),
     WithDynamicTp(Sig(BaseKeys \cup {"volume"}, "A", "BUY", -5, TRUE, ""), 0),
     Sig(BaseKeys \cup {"volume"}, "A", "BUY", 0, FALSE, ""),
     Sig(BaseKeys, "Z", "BUY", 0, TRUE, ""),
     Sig({"symbol", "action"}, "", "BUY", 0, TRUE, "")}

NoSignal == Sig({}, "", "", 0, TRUE, "")

(* ------------------------------ replies ------------------------------- *)

Reply(kind, ticket, volume) ==
    [kind |-> kind, ticket |-> ticket, volume |-> volume, reason |-> ""]

RejectedLocked == Reply("REJECTED (System Locked)", 0, 0)
UnknownStrategy == Reply("Unknown Strategy", 0, 0)
StrategyDisabled == Reply("Strategy Disabled", 0, 0)
NoData == Reply("No Data", 0, 0)
\* f"Manager: Failed ({result.comment})"
Failed(comment) == [Reply("Failed", 0, 0) EXCEPT !.reason = comment]
InternalError == Reply("Internal Error", 0, 0)
Opened(ticket, volume) == Reply("OPENED", ticket, volume)

(* --------------------------- execute_trade ---------------------------- *)

\* Lines 268-271 with a plausible slip: the override is taken whenever present.
EffectiveVolume_AnyOverride(sig, settings) ==
    IF "volume" \in sig.keys THEN sig.volume.value ELSE settings.volume

\* Lines 268-271: the order volume (float() of a numeric value is that value).
EffectiveVolume(sig, settings) ==
    IF "volume" \in sig.keys /\ sig.volume.value > 0
    THEN sig.volume.value
    ELSE settings.volume

\* float(signal_data['volume']) raises for a value that is not a number.
VolumeRaises(sig) == "volume" \in sig.keys /\ ~sig.volume.numeric

\* Lines 259-262 with a plausible slip: the enabled flag is not looked at.
StrategyGate_NoEnabledCheck(cfg, sid) ==
    IF sid \notin DOMAIN StrategiesOf(cfg) THEN "unknown" ELSE "ok"

\* Lines 256-262: the verdict on the signal's strategy id.
StrategyGate(cfg, sid) ==
    IF sid \notin DOMAIN StrategiesOf(cfg) THEN "unknown"
    ELSE IF ~StrategiesOf(cfg)[sid].enabled THEN "disabled"
    ELSE "ok"

\* Line 255 with a plausible slip: the cached configuration is used as it is.
ReloadForSignal_Cached(cfg, last, f, mt) == [config |-> cfg, last |-> last, ok |-> TRUE]

\* Line 255: execute_trade reloads the configuration before it reads it.
ReloadForSignal(cfg, last, f, mt) == load_config(cfg, last, f, mt)

\* The outcome of one call: the reply (none when the call raises), whether it
\* raised, the order requests handed to order_send, what symbol_info_tick
\* answered ("" while it was not asked), and the core and broker state it leaves.
Outcome(reply, raised, order, ld, tracked, meta, pos) ==
    [replies |-> reply, raised |-> raised, order |-> order, tick |-> "",
     config |-> ld.config, last |-> ld.last, tracked |-> tracked, meta |-> meta,
     positions |-> pos]

NoLoad == [config |-> config, last |-> last_config_mtime]

\* The tick symbol_info_tick returns for the symbol.
Ask == 11000
Bid == 10998

\* Line 274: the stop-loss distance.
SlPoints(sig, settings) == settings.trade_limits.sl_points

\* Lines 276-279 with a plausible slip: the signal's value is ignored.
TpPoints_StaticOnly(sig, settings) == settings.trade_limits.tp_points

\* Lines 276-279: the take-profit distance (float() of a number is that number).
TpPoints(sig, settings) ==
    IF "dynamic_tp" \in sig.keys THEN sig.dynamic_tp ELSE settings.trade_limits.tp_points

\* Lines 285-293 with a plausible slip: distances are multiplied by a point size of 0.0001.
PriceLevels_InPoints(action, sl_points, tp_points) ==
    LET price == IF action = "BUY" THEN Ask ELSE Bid
    IN  [price |-> price,
         sl |-> IF sl_points > 0
                THEN (IF action = "BUY" THEN price - sl_points \div 10000 ELSE price + sl_points \div 10000)
                ELSE 0,
         tp |-> IF tp_points > 0
                THEN (IF action = "BUY" THEN price + tp_points \div 10000 ELSE price - tp_points \div 10000)
                ELSE 0]

\* Lines 285-293 with a plausible slip: the distances are applied whatever their
\* sign.
PriceLevels_NoSignCheck(action, sl_points, tp_points) ==
    LET price == IF action = "BUY" THEN Ask ELSE Bid
    IN  [price |-> price,
         sl |-> IF action = "BUY" THEN price - sl_points ELSE price + sl_points,
         tp |-> IF action = "BUY" THEN price + tp_points ELSE price - tp_points]

\* Lines 285-293: the order's price and its absolute stop-loss and take-profit
\* prices (0 stands for 0.0: none).
PriceLevels(action, sl_points, tp_points) ==
    LET price == IF action = "BUY" THEN Ask ELSE Bid
    IN  [price |-> price,
         sl |-> IF sl_points > 0
                THEN (IF action = "BUY" THEN price - sl_points ELSE price + sl_points)
                ELSE 0,
         tp |-> IF tp_points > 0
                THEN (IF action = "BUY" THEN price + tp_points ELSE price - tp_points)
                ELSE 0]

\* Lines 295-307: the request handed to order_send.
OrderRequest(sig, settings, volume) ==
    LET lv == PriceLevels(sig.action, SlPoints(sig, settings), TpPoints(sig, settings))
    IN  [symbol |-> sig.symbol, volume |-> volume,
         type |-> IF sig.action = "BUY" THEN "BUY" ELSE "SELL",
         price |-> lv.price, sl |-> lv.sl, tp |-> lv.tp,
         magic |-> settings.magic_number, comment |-> sig.strategy_id]

\* result.comment of an order the broker turns down.
BrokerComment == "No money"

\* Line 310 with a plausible slip: any result object counts as success.
RetcodeDone_AnyResult(orderRes) == orderRes # "none"

\* Line 310: result.retcode == TRADE_RETCODE_DONE.
RetcodeDone(orderRes) == orderRes = "done"

\* Line 282 with a plausible slip: the tick is not checked.
TickMissing_Never(tickOk) == FALSE

\* Line 282: if not tick.
TickMissing(tickOk) == ~tickOk

\* Lines 255-318, reached when the system is not locked. tickOk: symbol_info_tick
\* returns a tick; orderRes: what order_send returns ("done", "rejected", or
\* "none" for no result object at all).
execute_unlocked(sig, tickOk, orderRes) ==
    LET ld == ReloadForSignal(config, last_config_mtime, file, fileMtime)
        keep(reply, raised) ==
            Outcome(reply, raised, <<>>, ld, tracked_tickets, trade_metadata, positions)
        gate == StrategyGate(ld.config, sig.strategy_id)
        \* line 281 was reached: symbol_info_tick has answered
        asked(o) == [o EXCEPT !.tick = IF tickOk THEN "ok" ELSE "none"]
    IN  IF gate = "unknown" THEN keep(<<UnknownStrategy>>, FALSE)
        ELSE IF gate = "disabled" THEN keep(<<StrategyDisabled>>, FALSE)
        ELSE IF "symbol" \notin sig.keys \/ VolumeRaises(sig) THEN keep(<<>>, TRUE)
        ELSE IF TickMissing(tickOk) THEN asked(keep(<<NoData>>, FALSE))
        ELSE asked(
          LET settings == StrategiesOf(ld.config)[sig.strategy_id]
              volume == EffectiveVolume(sig, settings)
              request == OrderRequest(sig, settings, volume)
              ticket == NextTicket(positions)
              \* the broker's side: an order it accepts opens a position
              after == IF orderRes = "done"
                       THEN [positions EXCEPT ![ticket] =
                               [status |-> "open", type |-> request.type,
                                volume |-> request.volume, magic |-> request.magic,
                                comment |-> request.comment, history |-> NoHistory,
                                closedDown |-> FALSE]]
                       ELSE positions
          IN  IF orderRes = "none"
              THEN Outcome(<<>>, TRUE, <<request>>, ld, tracked_tickets, trade_metadata, after)
              ELSE IF ~RetcodeDone(orderRes)
              THEN Outcome(<<Failed(BrokerComment)>>, FALSE, <<request>>, ld,
                           tracked_tickets, trade_metadata, after)
              ELSE Outcome(<<Opened(ticket, volume)>>, FALSE, <<request>>, ld,
                       [t \in DOMAIN tracked_tickets \cup {ticket} |->
                           IF t = ticket THEN sig.strategy_id ELSE tracked_tickets[t]],
                       IF "extra_metrics" \in sig.keys
                       THEN [t \in DOMAIN trade_metadata \cup {ticket} |->
                               IF t = ticket THEN sig.extra_metrics ELSE trade_metadata[t]]
                       ELSE trade_metadata,
                       after))

\* Line 253 left out: a plausible slip.
execute_trade_NoLockCheck(sig, tickOk, orderRes) == execute_unlocked(sig, tickOk, orderRes)

\* execute_trade (lines 252-318).
execute_trade(sig, tickOk, orderRes) ==
    IF system_locked
    THEN Outcome(<<RejectedLocked>>, FALSE, <<>>, NoLoad,
                 tracked_tickets, trade_metadata, positions)
    ELSE execute_unlocked(sig, tickOk, orderRes)

(* ---------------------------- intake step ----------------------------- *)

IdleIO ==
    [received |-> FALSE, msg |-> NoSignal, replies |-> <<>>, order |-> <<>>, tick |-> "",
     result |-> "", read |-> ""]

\* Lines 354-357 with a plausible slip: the error path sends nothing.
ErrorReplies_Silent == <<>>

\* Lines 354-357: what the handler sends when the try block raised.
ErrorReplies == <<InternalError>>

\* Lines 348-357 for a received message: the print of line 349 reads the keys
\* strategy_id and action and raises when one is absent; otherwise execute_trade
\* runs and its reply is sent; when either raised, the error reply is sent.
Intake(sig, tickOk, orderRes) ==
    IF ~({"strategy_id", "action"} \subseteq sig.keys)
    THEN Outcome(ErrorReplies, TRUE, <<>>, NoLoad, tracked_tickets, trade_metadata, positions)
    ELSE LET r == execute_trade(sig, tickOk, orderRes)
         IN  IF r.raised THEN [r EXCEPT !.replies = ErrorReplies] ELSE r

(* ---------------------------- persistence ----------------------------- *)

\* INSERT without OR REPLACE on a table that had no primary key: a plausible slip.
Upsert_PlainInsert(rows, row) == rows \cup {row}

\* INSERT OR REPLACE INTO trades, ticket being the PRIMARY KEY (database.py lines
\* 28 and 106-130): the row replaces any row with the same ticket.
Upsert(rows, row) == {r \in rows : r.ticket # row.ticket} \cup {row}

\* Database.log_trade: outcome "ok" commits the row; "error" is an exception of
\* execute or commit, caught and printed inside log_trade (lines 132-133); the
\* table is left as it was.
log_trade(rows, row, outcome) == IF outcome = "ok" THEN Upsert(rows, row) ELSE rows

DbOutcomes == {"ok", "error", "connect_error"}

(* --------------------------- reconciliation --------------------------- *)

\* round(x, 2) on an amount in thousandths: the nearest hundredth, a tie going
\* to the even one (\div rounds down, % is never negative).
Round2(x) ==
    LET q == x \div 10
        r == x % 10
    IN  IF r < 5 THEN 10 * q
        ELSE IF r > 5 THEN 10 * (q + 1)
        ELSE IF q % 2 = 0 THEN 10 * q ELSE 10 * (q + 1)

\* Line 184 with a plausible slip: the commission is left out of the sum.
NetPnl_NoCommission(h) == Round2(h.profit + h.swap)

\* Lines 157 and 184: net_pnl of the record.
NetPnl(h) == Round2(h.profit + h.swap + h.commission)

\* Lines 158 and 162-163: duration of the record.
Duration(h) == IF h.entry THEN h.exit_time - h.entry_time ELSE 0

\* Lines 167-170: reason of the record.
CloseReason(h) ==
    IF h.reason = "CLIENT" THEN "Manual Close"
    ELSE IF h.reason = "SL" THEN "Stop Loss"
    ELSE IF h.reason = "TP" THEN "Take Profit"
    ELSE "Unknown"

\* Lines 155 and 188 with a plausible slip: the bag of the latest tracked ticket
\* is taken.
MetaOf_Latest(ticket, meta) ==
    IF DOMAIN meta = {} THEN ""
    ELSE meta[CHOOSE t \in DOMAIN meta : \A u \in DOMAIN meta : u <= t]

\* Line 155: meta = trade_metadata.get(ticket, {}) ("" stands for {}).
MetaOf(ticket, meta) == IF ticket \in DOMAIN meta THEN meta[ticket] ELSE ""

\* Line 178: action of the record. The entry deal of a position has the
\* position's direction.
RecordAction(p) == IF p.history.entry /\ p.type = "BUY" THEN "BUY" ELSE "SELL"

\* Lines 174-189: the record of a closed ticket (the fields the model carries),
\* built from the deals of the position.
TradeRecord(ticket, tracked, meta, pos) ==
    [ticket |-> ticket, strategy_id |-> tracked[ticket],
     action |-> RecordAction(pos[ticket]),
     net_pnl |-> NetPnl(pos[ticket].history),
     duration |-> Duration(pos[ticket].history),
     reason |-> CloseReason(pos[ticket].history),
     extra_metrics |-> MetaOf(ticket, meta)]

\* Lines 139-141 with a plausible slip: every tracked ticket is looked at.
MissingTickets_AllTracked(tracked, pos) == DOMAIN tracked

\* Lines 139-141: tracked tickets the broker no longer lists.
MissingTickets(tracked, pos) == {t \in DOMAIN tracked : t \notin LiveTickets(pos)}

\* Lines 146-154: missing tickets whose history shows an exit deal.
ClosedWithExit(tracked, pos) == {t \in MissingTickets(tracked, pos) : HasExitDeal(pos[t])}

\* Tickets of the loop of lines 143-194 that get as far as log_trade and past it:
\* get_connection (line 94, outside the try) raising ends the whole phase, so the
\* tickets from the first such failure on are not handled. dict order is
\* insertion order, which is ticket order.
Handled(tracked, pos, db) ==
    {t \in ClosedWithExit(tracked, pos) :
        \A u \in ClosedWithExit(tracked, pos) : u <= t => db[u] # "connect_error"}

RECURSIVE LogAll(_, _, _, _, _, _)
LogAll(rows, todo, tracked, meta, pos, db) ==
    IF todo = {} THEN rows
    ELSE LET t == CHOOSE x \in todo : \A y \in todo : x <= y
         IN  LogAll(log_trade(rows, TradeRecord(t, tracked, meta, pos), db[t]),
                    todo \ {t}, tracked, meta, pos, db)

Restrict(f, keep) == [t \in DOMAIN f \cap keep |-> f[t]]

\* Line 194 left out: a plausible slip.
DropMetadata_Never(meta, done) == meta

\* Line 194: the metadata of the tickets the loop has finished with is deleted.
DropMetadata(meta, done) == Restrict(meta, DOMAIN meta \ done)

(* ------------------------------ governor ------------------------------ *)

\* Floating profit + swap of a position, as positions_get reports it.
ProfitValues == {-50, 25, 60}

CloseOutcomes == {"notick", "done", "failed"}

\* The record of a governor cycle: what its load_config call did ("none": no call,
\* or the file was not newer; "replaced": a newer complete document was taken
\* over; "refused": the file was missing, or newer but unparseable or incomplete),
\* whether the basket was evaluated, with what profit, how often
\* close_all_positions was called, and per ticket the close orders sent for it.
GovRecord(load, evaluated, profit, calls, closes) ==
    [load |-> load, evaluated |-> evaluated, profit |-> profit, calls |-> calls,
     closes |-> closes, read |-> ""]

NoCloses == [t \in Tickets |-> <<>>]

IdleGov == GovRecord("none", FALSE, 0, 0, NoCloses)

LoadKind(last, f, mt, ld) ==
    IF ld.last # last THEN "replaced"
    ELSE IF f.kind = "missing" THEN "refused"
    ELSE IF mt > last THEN "refused"
    ELSE "none"

RECURSIVE SumOver(_, _)
SumOver(f, S) ==
    IF S = {} THEN 0
    ELSE LET t == CHOOSE x \in S : TRUE IN f[t] + SumOver(f, S \ {t})

\* Line 239 with a plausible slip: strictly above the limit.
TpHit_Strict(risk, profit) ==
    risk.basket_take_profit_usd # 0 /\ profit > risk.basket_take_profit_usd

\* Line 239: tp_limit and current_profit >= tp_limit (0 and None are both falsy).
TpHit(risk, profit) ==
    risk.basket_take_profit_usd # 0 /\ profit >= risk.basket_take_profit_usd

\* Line 246.
SlHit(risk, profit) ==
    risk.basket_stop_loss_usd # 0 /\ profit <= risk.basket_stop_loss_usd

\* Line 206 with a plausible slip: the close order takes the position's direction.
CloseType_Same(type) == IF type = "BUY" THEN "BUY" ELSE "SELL"

\* Line 206: type_close.
CloseType(type) == IF type = "BUY" THEN "SELL" ELSE "BUY"

\* Lines 207-218: the close order for the position of ticket t.
CloseRequest(t, p) ==
    [position |-> t, volume |-> p.volume, type |-> CloseType(p.type),
     price |-> IF CloseType(p.type) = "SELL" THEN Bid ELSE Ask,
     magic |-> p.magic, comment |-> "Basket Close"]

\* close_all_positions (lines 196-219): up is whether positions_get answers, res
\* gives per open position "notick" (no tick: skipped), "done" (the close order
\* is filled) or "failed" (order_send fails; the result is not looked at).
close_all_positions(pos, up, res) ==
    IF ~up \/ LiveTickets(pos) = {}
    THEN [positions |-> pos, sent |-> NoCloses]
    ELSE [positions |->
             [t \in Tickets |->
                 IF t \in LiveTickets(pos) /\ res[t] = "done"
                 THEN Closed(pos[t]) ELSE pos[t]],
          sent |-> [t \in Tickets |->
                       IF t \in LiveTickets(pos) /\ res[t] # "notick"
                       THEN <<CloseRequest(t, pos[t])>> ELSE <<>>]]

\* Line 227 with a plausible slip: the block is looked up in the system section.
RiskOf_InSystem(cfg) == cfg.system_risk_management

\* Line 227: risk = config.get('risk_management', {}), a top-level key.
RiskOf(cfg) == cfg.risk_management

\* Line 224 with a plausible slip: the governor runs whatever the lock says.
GovernorReturnsLocked_Never(locked) == FALSE

\* Line 224: if system_locked: return.
GovernorReturnsLocked(locked) == locked

\* Lines 229-234 with a plausible slip: the enabled flag is not looked at.
GovernorSkips_IgnoresEnabled(risk, up, pos) == ~up \/ LiveTickets(pos) = {}

\* Lines 229-234: the governor returns when the basket is not enabled (a missing
\* key counts as disabled), when positions_get gives no answer (up is FALSE) and
\* when it lists no position.
GovernorSkips(risk, up, pos) == ~risk.basket_enabled \/ ~up \/ LiveTickets(pos) = {}

\* Lines 239-250 with a plausible slip: the lock is set whenever the basket is evaluated.
LockAfter_Always(locked, tp, sl) == TRUE

\* Lines 242 and 249: system_locked after the two threshold checks.
LockAfter(locked, tp, sl) == locked \/ tp \/ sl

(* ------------------------------ snapshots ----------------------------- *)

SNAPSHOT_INTERVAL == 60

\* The first reading of the clock: time.time() is far past the interval.
StartTime == SNAPSHOT_INTERVAL

\* How far the clock moves between two readings the model tells apart.
ClockSteps == {SNAPSHOT_INTERVAL \div 2, SNAPSHOT_INTERVAL}

\* Line 107 with a plausible slip: no throttle.
SnapshotDue_Always(t, last) == TRUE

\* Line 107: the snapshot is skipped while time.time() - last_snapshot_time is
\* below the interval.
SnapshotDue(t, last) == ~(t - last < SNAPSHOT_INTERVAL)

\* Database.log_equity_snapshot (database.py lines 137-154) past get_connection:
\* "ok" inserts a row stamped datetime.now(); an exception of execute or commit
\* is caught and printed. Of a row the model carries the timestamp.
log_equity_snapshot(rows, t, outcome) == IF outcome = "ok" THEN rows \cup {t} ELSE rows

(* ------------------------------ startup ------------------------------- *)

NoTickets == [t \in {} |-> ""]

\* Line 92: magic number -> strategy id.
MagicMap(cfg) ==
    LET st == StrategiesOf(cfg)
    IN  [m \in {st[k].magic_number : k \in DOMAIN st} |->
            CHOOSE k \in DOMAIN st : st[k].magic_number = m]

\* sync_positions_on_startup (lines 89-103): tracked_tickets after it; up is
\* whether positions_get answers.
sync_positions_on_startup(cfg, pos, up) ==
    IF ~up THEN NoTickets
    ELSE [t \in {u \in LiveTickets(pos) : pos[u].magic \in DOMAIN MagicMap(cfg)} |->
             MagicMap(cfg)[pos[t].magic]]

\* Lines 81-84 with a plausible slip: the login is not compared.
AccountAccepted_Unchecked(cfg, login) == TRUE

\* Lines 65 and 81-84 of connect_mt5: the authenticated account passes unless an
\* expected account is configured and differs.
AccountAccepted(cfg, login) ==
    ~(cfg.authorized_account_number # 0 /\ login # cfg.authorized_account_number)

(* ------------------------------ actions ------------------------------- *)

\* A signal engine with no request under way.
NoCaller == [state |-> "idle", queued |-> FALSE, abandoned |-> FALSE]

StrategyIds == {"A", "B"}

\* No launcher has run: no child process exists.
LauncherOff ==
    [pc |-> "off", left |-> "", manager |-> "none", dash |-> "none", restarts |-> 0,
     shell |-> [k \in StrategyIds |-> "none"], engine |-> [k \in StrategyIds |-> "none"]]

\* The state before any core process has run: the module-level values of lines
\* 15-23, a config file among files, the terminal logged in to one of accounts.
InitWith(files, accounts) ==
    /\ pc = "down"
    /\ config = EmptyConfig
    /\ last_config_mtime = 0
    /\ tracked_tickets = NoTickets
    /\ trade_metadata = NoTickets
    /\ system_locked = FALSE
    /\ last_snapshot_time = 0
    /\ file \in files
    /\ fileMtime = 1
    /\ positions = [t \in Tickets |-> NoPosition]
    /\ trades = {}
    /\ reconciled = {}
    /\ equity_history = {}
    /\ written = {}
    /\ account \in accounts
    /\ now = StartTime
    /\ io = IdleIO
    /\ gov = IdleGov
    /\ caller = NoCaller
    /\ launcher = LauncherOff

Init == InitWith(FileContents, {AuthorizedAccount})

\* run_manager up to the loop (lines 320-343), in a fresh process: load_config,
\* connect_mt5 (connectOk: the terminal is reached and account_info answers; then
\* the account check), db.initialize, sync_positions_on_startup (the terminal that
\* has just answered account_info answers positions_get). A failed startup ends
\* the process.
Start ==
    /\ pc = "down"
    /\ \E connectOk \in BOOLEAN :
         LET ld == load_config(config, last_config_mtime, file, fileMtime)
         IN  IF ld.ok /\ connectOk /\ AccountAccepted(ld.config, account)
             THEN /\ config' = ld.config
                  /\ last_config_mtime' = ld.last
                  /\ tracked_tickets' = sync_positions_on_startup(ld.config, positions, TRUE)
                  /\ pc' = "poll"
             ELSE UNCHANGED <<config, last_config_mtime, tracked_tickets, pc>>
    /\ UNCHANGED <<trade_metadata, system_locked, last_snapshot_time, written, file,
                   fileMtime, positions, trades, reconciled, io, gov, clockVars, peerVars>>

\* The core process ends (killed, crashed or interrupted): its memory is gone, and
\* a new process starts from the module-level values of lines 15-23.
Stop ==
    /\ pc # "down"
    /\ pc' = "down"
    /\ config' = EmptyConfig
    /\ last_config_mtime' = 0
    /\ tracked_tickets' = NoTickets
    /\ trade_metadata' = NoTickets
    /\ system_locked' = FALSE
    /\ last_snapshot_time' = 0
    /\ written' = {}
    /\ io' = IdleIO
    /\ gov' = IdleGov
    /\ UNCHANGED <<file, fileMtime, positions, trades, reconciled, clockVars, peerVars>>

\* Lines 347-357 with a message on the socket: one of signals; the broker hands
\* out tickets up to limit; detail: the direction and volume of the positions are
\* kept.
ReceiveSignal(signals, limit, detail) ==
    /\ pc = "poll"
    /\ \E sig \in signals, tickOk \in BOOLEAN, orderRes \in {"done", "rejected", "none"} :
         /\ orderRes = "done" => NextTicket(positions) \in 1..limit
         /\ LET r == Intake(sig, tickOk, orderRes)
            IN  /\ config' = r.config
                /\ last_config_mtime' = r.last
                /\ tracked_tickets' = r.tracked
                /\ trade_metadata' = r.meta
                /\ positions' = IF detail THEN r.positions ELSE Unobserved(r.positions)
                /\ io' = [received |-> TRUE, msg |-> sig, replies |-> r.replies, order |-> r.order,
                          tick |-> r.tick, result |-> IF r.order = <<>> THEN "" ELSE orderRes,
                          read |-> ""]
    /\ pc' = "reconcile"
    /\ UNCHANGED <<system_locked, last_snapshot_time, written, file, fileMtime, trades,
                   reconciled, gov, clockVars, launcher>>

\* The intake step for a message of a sender the model does not follow.
HandleSignalOf(signals, limit) == ReceiveSignal(signals, limit, TRUE) /\ UNCHANGED caller

\* In Spec every strategy sends both directions and several volumes; the
\* positions are kept without them.
HandleSignal == ReceiveSignal(Signals, MaxTickets, FALSE) /\ UNCHANGED caller

\* Lines 352-353: nothing on the socket (zmq.Again).
NoMessage ==
    /\ pc = "poll"
    /\ pc' = "reconcile"
    /\ io' = IdleIO
    /\ UNCHANGED <<coreVars, file, fileMtime, positions, trades, reconciled, gov, clockVars, peerVars>>

\* Line 138 left out: a plausible slip (no ticket counts as listed).
ReconcileReturns_Never(up) == FALSE

\* Line 138: if live_positions is None: return.
ReconcileReturns(up) == ~up

\* check_closed_trades (lines 136-194). up: positions_get answers, among
\* answers; db: what log_trade meets for each ticket, among outcomes. A connect
\* error leaves the phase by the handler of lines 367-368, which starts the next
\* iteration. seen: io.read keeps what positions_get answered.
ReconcileSeen(outcomes, answers, seen) ==
    /\ pc = "reconcile"
    /\ \E up \in answers :
         /\ io' = [IdleIO EXCEPT !.read = IF ~seen THEN "" ELSE IF up THEN "ok" ELSE "none"]
         /\ IF ReconcileReturns(up)
            THEN /\ pc' = "governor"
                 /\ UNCHANGED <<tracked_tickets, trade_metadata, trades, reconciled>>
            ELSE \E db \in [ClosedWithExit(tracked_tickets, positions) -> outcomes] :
                   LET done == Handled(tracked_tickets, positions, db)
                   IN  /\ trades' = LogAll(trades, done, tracked_tickets, trade_metadata,
                                            positions, db)
                       /\ tracked_tickets' = Restrict(tracked_tickets,
                                                      DOMAIN tracked_tickets \ done)
                       /\ trade_metadata' = DropMetadata(trade_metadata, done)
                       /\ reconciled' = reconciled \cup done
                       /\ pc' = IF \E t \in DOMAIN db : db[t] = "connect_error"
                                THEN "poll" ELSE "governor"
    /\ UNCHANGED <<config, last_config_mtime, system_locked, last_snapshot_time, written,
                   file, fileMtime, positions, gov, clockVars, peerVars>>

ReconcileWith(outcomes, answers) == ReconcileSeen(outcomes, answers, FALSE)

Reconcile == ReconcileWith(DbOutcomes, BOOLEAN)

\* check_basket_logic past line 234 (lines 236-250): the basket is enabled and
\* positions_get listed the open positions with the floating profit + swap given
\* by profits.
EvaluateBasket(risk, profits, load) ==
    LET profit == SumOver(profits, LiveTickets(positions))
        tp == TpHit(risk, profit)
        sl == SlHit(risk, profit)
    IN  \E up1 \in (IF tp THEN BOOLEAN ELSE {TRUE}),
           res1 \in (IF tp THEN [LiveTickets(positions) -> CloseOutcomes]
                     ELSE {[t \in LiveTickets(positions) |-> "notick"]}) :
          LET c1 == IF tp THEN close_all_positions(positions, up1, res1)
                    ELSE [positions |-> positions, sent |-> NoCloses]
          IN  \E up2 \in (IF sl THEN BOOLEAN ELSE {TRUE}),
                 res2 \in (IF sl THEN [LiveTickets(c1.positions) -> CloseOutcomes]
                           ELSE {[t \in LiveTickets(c1.positions) |-> "notick"]}) :
                LET c2 == IF sl THEN close_all_positions(c1.positions, up2, res2)
                          ELSE [positions |-> c1.positions, sent |-> NoCloses]
                IN  /\ positions' = c2.positions
                    /\ system_locked' = LockAfter(system_locked, tp, sl)
                    /\ gov' = GovRecord(load, TRUE, profit,
                                        (IF tp THEN 1 ELSE 0) + (IF sl THEN 1 ELSE 0),
                                        [t \in Tickets |-> c1.sent[t] \o c2.sent[t]])

\* check_basket_logic (lines 221-250). up: positions_get answers, among answers;
\* the profit + swap of each open position is among values. seen: gov.read keeps
\* that positions_get was asked and gave no answer.
GovernorSeen(values, answers, seen) ==
    /\ pc = "governor"
    /\ pc' = "snapshot"
    /\ IF GovernorReturnsLocked(system_locked)
       THEN /\ gov' = IdleGov
            /\ UNCHANGED <<config, last_config_mtime, system_locked, positions>>
       ELSE LET ld == load_config(config, last_config_mtime, file, fileMtime)
                risk == RiskOf(ld.config)
                load == LoadKind(last_config_mtime, file, fileMtime, ld)
            IN  /\ config' = ld.config
                /\ last_config_mtime' = ld.last
                /\ \E up \in answers :
                     IF GovernorSkips(risk, up, positions)
                     THEN /\ gov' = [GovRecord(load, FALSE, 0, 0, NoCloses) EXCEPT
                                        !.read = IF seen /\ risk.basket_enabled /\ ~up
                                                 THEN "none" ELSE ""]
                          /\ UNCHANGED <<system_locked, positions>>
                     ELSE \E profits \in [LiveTickets(positions) -> values] :
                            EvaluateBasket(risk, profits, load)
    /\ UNCHANGED <<tracked_tickets, trade_metadata, last_snapshot_time, written, file,
                   fileMtime, trades, reconciled, io, clockVars, peerVars>>

GovernorWith(values, answers) == GovernorSeen(values, answers, FALSE)

Governor == GovernorWith(ProfitValues, BOOLEAN)

\* record_equity_snapshot and the sleep (lines 105-134 and 361-362): the end of
\* an iteration. accOk: account_info answers, among answers; db: what
\* log_equity_snapshot meets (a connect error raises out of the phase, before
\* line 134). It reads the configuration without reloading it and writes only
\* the equity_history table.
SnapshotWith(answers) ==
    /\ pc = "snapshot"
    /\ pc' = "poll"
    /\ gov' = IdleGov
    /\ IF ~SnapshotDue(now, last_snapshot_time)
       THEN UNCHANGED <<last_snapshot_time, equity_history, written>>
       ELSE \E accOk \in answers, db \in DbOutcomes :
              IF ~accOk \/ db = "connect_error"
              THEN UNCHANGED <<last_snapshot_time, equity_history, written>>
              ELSE /\ equity_history' = log_equity_snapshot(equity_history, now, db)
                   /\ written' = log_equity_snapshot(written, now, db)
                   /\ last_snapshot_time' = now
    /\ UNCHANGED <<config, last_config_mtime, tracked_tickets, trade_metadata, system_locked,
                   file, fileMtime, positions, trades, reconciled, io, account, now, peerVars>>

Snapshot == SnapshotWith(BOOLEAN)

\* The snapshot phase when account_info gives no answer (line 111).
SnapshotSkipped == SnapshotWith({FALSE})

\* The config file is rewritten (save_config of the dashboard, an editor) with
\* one of contents, or deleted; its modification time advances or, within the
\* clock's granularity, stays.
FileChangeTo(contents) ==
    /\ \E c \in contents, adv \in BOOLEAN :
         /\ adv => fileMtime < MaxMtime
         /\ adv \/ c # file
         /\ file' = c
         /\ fileMtime' = IF adv THEN fileMtime + 1 ELSE fileMtime
    /\ UNCHANGED <<pc, coreVars, positions, trades, reconciled, io, gov, clockVars, peerVars>>

FileChange == FileChangeTo(FileContents)

\* Broker: an open position closes (stop loss, take profit, manual close).
PositionCloses ==
    /\ \E t \in LiveTickets(positions) :
         positions' = [positions EXCEPT ![t] = [Closed(@) EXCEPT !.closedDown = (pc = "down")]]
    /\ UNCHANGED <<pc, coreVars, file, fileMtime, trades, reconciled, io, gov, clockVars, peerVars>>

\* Broker: the exit deal of a closed position appears in the deal history, which
\* then reads as one of histories.
DealPostsWith(histories) ==
    /\ \E t \in Tickets, h \in histories :
         /\ positions[t].status = "closed"
         /\ positions' = [positions EXCEPT ![t].status = "settled", ![t].history = h]
    /\ UNCHANGED <<pc, coreVars, file, fileMtime, trades, reconciled, io, gov, clockVars, peerVars>>

DealPosts == DealPostsWith({PlainHistory})

\* Broker: half of an open position is closed (by hand, in the terminal); the
\* position stays listed and the exit deal of the part is in the history.
PartialClose ==
    /\ \E t \in Tickets :
         /\ positions[t].status = "open"
         /\ positions' = [positions EXCEPT ![t].status = "reduced", ![t].history = PlainHistory,
                                           ![t].volume = @ \div 2]
    /\ UNCHANGED <<pc, coreVars, file, fileMtime, trades, reconciled, io, gov, clockVars, peerVars>>

\* Time passes.
Tick ==
    /\ \E d \in ClockSteps :
         /\ now + d <= StartTime + MaxTicks * (SNAPSHOT_INTERVAL \div 2)
         /\ now' = now + d
    /\ UNCHANGED <<pc, coreVars, file, fileMtime, positions, trades, reconciled, io, gov,
                   equity_history, account, peerVars>>

\* The core with its whole trading interface (every signal, every state of the
\* config file, every outcome of recording a trade) on the authorized account;
\* the snapshot phase gets no account information (SpecClock covers it).
Next ==
    \/ Start
    \/ Stop
    \/ HandleSignal
    \/ NoMessage
    \/ Reconcile
    \/ Governor
    \/ SnapshotSkipped
    \/ FileChange
    \/ PositionCloses
    \/ DealPosts

Spec == Init /\ [][Next]_vars

(* ------------------------- restarts and accounts ----------------------- *)

\* What the config file can hold between two runs: the document with the
\* account guard, one without it, and one with the tag numbers swapped.
RestartFiles ==
    {JsonFile(Document("on", BasketRisk)), JsonFile(Unguarded(Document("on", NoRisk))),
     JsonFile(ReassignedDoc)}

\* A signal with nothing but the keys every engine sends.
PlainSignals == {Sig(BaseKeys, "A", "BUY", 0, TRUE, "")}

InitRestart == InitWith(RestartFiles, {AuthorizedAccount, OtherAccount})

RestartSignal == HandleSignalOf(PlainSignals, MaxTickets)

ReconcileOk == ReconcileWith({"ok"}, BOOLEAN)

RestartFileChange == FileChangeTo(RestartFiles)

\* The core over several runs, on any account, with complete config files whose
\* tags may be reassigned, one kind of signal and a persistence layer that works
\* for trades.
NextRestart ==
    \/ Start
    \/ Stop
    \/ RestartSignal
    \/ NoMessage
    \/ ReconcileOk
    \/ Governor
    \/ SnapshotSkipped
    \/ RestartFileChange
    \/ PositionCloses
    \/ DealPosts

SpecRestart == InitRestart /\ [][NextRestart]_vars

(* ------------------------------ the clock ------------------------------ *)

InitClock == InitWith({JsonFile(Document("on", BasketRisk))}, {AuthorizedAccount})

\* The loop over several runs while time passes, without signals.
NextClock ==
    \/ Start
    \/ Stop
    \/ NoMessage
    \/ ReconcileOk
    \/ Governor
    \/ Snapshot
    \/ Tick

SpecClock == InitClock /\ [][NextClock]_vars

(* ----------------------- baskets of several positions ------------------ *)

\* profit + swap of one position; two of them reach the thresholds of
\* BasketRisk exactly (25 + 25), pass them (30 + 25) or stay between them.
BasketProfits == {-50, 25, 30}

\* One signal for each of the two strategies.
BasketSignals == {Sig(BaseKeys, "A", "BUY", 0, TRUE, ""), Sig(BaseKeys, "B", "SELL", 0, TRUE, "")}

InitBasket == InitWith({JsonFile(Document("on", BasketRisk))}, {AuthorizedAccount})

BasketSignal == HandleSignalOf(BasketSignals, MaxBasket)

BasketGovernor == GovernorWith(BasketProfits, BOOLEAN)

\* One run of the core with the basket enabled and positions of two strategies.
NextBasket ==
    \/ Start
    \/ BasketSignal
    \/ NoMessage
    \/ ReconcileOk
    \/ BasketGovernor
    \/ Snapshot
    \/ PositionCloses
    \/ DealPosts

SpecBasket == InitBasket /\ [][NextBasket]_vars

(* --------------------------- closed-trade records ---------------------- *)

InitRecords == InitWith({JsonFile(Document("on", DisabledRisk))}, {AuthorizedAccount})

RecordedDealPosts == DealPostsWith(Histories)

\* The core over several runs with the basket disabled, one kind of signal and
\* every kind of deal history.
NextRecords ==
    \/ Start
    \/ Stop
    \/ RestartSignal
    \/ NoMessage
    \/ ReconcileOk
    \/ Governor
    \/ SnapshotSkipped
    \/ PositionCloses
    \/ RecordedDealPosts

SpecRecords == InitRecords /\ [][NextRecords]_vars

(* ------------------------- reconciliation over runs -------------------- *)

\* One signal for each strategy, each with the extra_metrics bag of its own.
MetricSignals ==
    {Sig(BaseKeys \cup {"extra_metrics"}, "A", "BUY", 0, TRUE, "m1"),
     Sig(BaseKeys \cup {"extra_metrics"}, "B", "SELL", 0, TRUE, "m2")}

MetricSignal == HandleSignalOf(MetricSignals, MaxBasket)

\* Reconciliation with a broker that answers and a trades table that takes the
\* row or fails on it.
RecordingReconcile == ReconcileWith({"ok", "error"}, {TRUE})

\* The core over several runs with the basket disabled and positions of two
\* strategies that close in part or in full.
NextRecon ==
    \/ Start
    \/ Stop
    \/ MetricSignal
    \/ NoMessage
    \/ RecordingReconcile
    \/ Governor
    \/ SnapshotSkipped
    \/ PositionCloses
    \/ PartialClose
    \/ DealPosts

SpecRecon == InitRecords /\ [][NextRecon]_vars

(* --------------------- where the thresholds are placed ----------------- *)

\* The complete document with the basket thresholds in a top-level
\* risk_management block, and the same document with the block inside the system
\* section.
LayoutFiles ==
    {JsonFile(Document("on", BasketRisk)), JsonFile(InSystemSection(Document("on", BasketRisk)))}

\* profit + swap of a position that on its own passes the take-profit threshold
\* of BasketRisk.
ReachedProfit == 60

InitLayout == InitWith(LayoutFiles, {AuthorizedAccount})

LayoutSignal == HandleSignalOf(PlainSignals, MaxTickets)

\* The governor with a broker that answers and reports ReachedProfit for every
\* open position.
LayoutGovernor == GovernorWith({ReachedProfit}, {TRUE})

LayoutFileChange == FileChangeTo(LayoutFiles)

\* The core with either placement of the thresholds, hot edits between the two,
\* and every open position past the take-profit threshold.
NextLayout ==
    \/ Start
    \/ Stop
    \/ LayoutSignal
    \/ NoMessage
    \/ ReconcileOk
    \/ LayoutGovernor
    \/ SnapshotSkipped
    \/ LayoutFileChange
    \/ PositionCloses
    \/ DealPosts

SpecLayout == InitLayout /\ [][NextLayout]_vars

(* ------------------------------ properties ---------------------------- *)

\* A step of the intake handler that received a message.
IntakeStep == pc = "poll" /\ pc' = "reconcile" /\ io'.received

\* A step of the reconciliation phase.
ReconcileStep == pc = "reconcile" /\ pc' \in {"governor", "poll"}

RecordsOf(t) == {r \in trades : r.ticket = t}

\* C1 (P2): a signal received while the system is locked is rejected, whatever it
\* is: a message carrying strategy_id and action gets the lock rejection, a
\* message lacking one of them gets the error reply; no order request reaches the
\* broker, and TrackedPosition, TradeMetadata and the broker's positions stay as
\* they are.
C1_LockedSignalRejected ==
    [][(IntakeStep /\ system_locked) =>
          /\ io'.order = <<>>
          /\ io'.replies = IF {"strategy_id", "action"} \subseteq io'.msg.keys
                           THEN <<RejectedLocked>> ELSE <<InternalError>>
          /\ tracked_tickets' = tracked_tickets
          /\ trade_metadata' = trade_metadata
          /\ positions' = positions]_vars

\* C1 witness: a signal of a configured and enabled strategy
\* was answered with the lock rejection.
C1_Witness ==
    /\ pc = "reconcile" /\ system_locked /\ io.received
    /\ io.replies = <<RejectedLocked>>
    /\ io.msg.strategy_id \in DOMAIN StrategiesOf(config)
    /\ StrategiesOf(config)[io.msg.strategy_id].enabled

\* C2: the lock flag of a running core never goes back to unlocked, and it is set
\* only by a governor cycle that evaluated an enabled basket whose take-profit or
\* stop-loss condition held.
C2_LockOnlySetByGovernor ==
    [][/\ (system_locked /\ pc' # "down") => system_locked'
       /\ (~system_locked /\ system_locked') =>
             /\ pc = "governor"
             /\ gov'.evaluated
             /\ config'.risk_management.basket_enabled
             /\ \/ /\ config'.risk_management.basket_take_profit_usd # 0
                   /\ gov'.profit >= config'.risk_management.basket_take_profit_usd
                \/ /\ config'.risk_management.basket_stop_loss_usd # 0
                   /\ gov'.profit <= config'.risk_management.basket_stop_loss_usd]_vars

\* C2 witness: the governor is about to run in a cycle after the one that locked,
\* with the basket still enabled and a position still open.
C2_Witness ==
    /\ pc = "governor" /\ system_locked
    /\ config.risk_management.basket_enabled
    /\ LiveTickets(positions) # {}

\* C3 (P1), as claimed: every ticket reconciliation has finished with has exactly
\* one record in the trades table.
C3_ExactlyOneRecord == \A t \in reconciled : Cardinality(RecordsOf(t)) = 1

\* The half of C3 that holds: the trades table never holds two rows for a ticket.
TradesKeyedByTicket == \A r1, r2 \in trades : r1.ticket = r2.ticket => r1 = r2

\* C4, as claimed: whenever reconciliation removes a ticket from TrackedPosition, a
\* record for the ticket is in the trades table.
C4_RemovedOnlyAfterRecorded ==
    [][ReconcileStep =>
          \A t \in DOMAIN tracked_tickets :
              t \notin DOMAIN tracked_tickets' => \E r \in trades' : r.ticket = t]_vars

\* C5, as claimed, in the case it names: for a position opened through the core
\* that closed while the core was down, a reconciliation phase the restarted core
\* completes while the exit deal is visible leaves exactly one record.
C5_ClosedWhileDownRecorded ==
    [][\A t \in Tickets :
          (/\ ReconcileStep /\ pc' = "governor"
           /\ positions[t].status = "settled" /\ positions[t].closedDown)
          => Cardinality(RecordsOf(t)') = 1]_vars

\* Why C5 cannot recover: a closed ticket that is neither tracked nor recorded
\* stays so in every later state.
LostStaysLost ==
    [][\A t \in Tickets :
          (positions[t].status \in {"closed", "settled"} /\ t \notin DOMAIN tracked_tickets
             /\ RecordsOf(t) = {})
          => (positions'[t].status \in {"closed", "settled"} /\ t \notin DOMAIN tracked_tickets'
                /\ RecordsOf(t)' = {})]_vars

\* C6: every request received gets exactly one reply within the intake step that
\* received it (so before the next receive), on every path; a poll that received
\* nothing sends nothing.
C6_ExactlyOneReply ==
    /\ io.received => Len(io.replies) = 1
    /\ ~io.received => io.replies = <<>>
    /\ io.received => pc \in {"reconcile"}

\* C6 witness: execution raised after the order had been handed to the broker, and
\* the request still got its one reply.
C6_Witness == io.received /\ io.order # <<>> /\ io.replies = <<InternalError>>

\* C7: a signal whose strategy id is not in the loaded configuration, or whose
\* strategy is disabled there, is answered with a rejection string; no order is
\* submitted and TrackedPosition, TradeMetadata, RiskState and the broker's
\* positions are unchanged.
C7_UnknownOrDisabledRejected ==
    [][(/\ IntakeStep
        /\ {"strategy_id", "action"} \subseteq io'.msg.keys
        /\ \/ io'.msg.strategy_id \notin DOMAIN StrategiesOf(config')
           \/ ~StrategiesOf(config')[io'.msg.strategy_id].enabled) =>
          /\ io'.replies =
                IF system_locked THEN <<RejectedLocked>>
                ELSE IF io'.msg.strategy_id \notin DOMAIN StrategiesOf(config')
                THEN <<UnknownStrategy>> ELSE <<StrategyDisabled>>
          /\ io'.order = <<>>
          /\ tracked_tickets' = tracked_tickets
          /\ trade_metadata' = trade_metadata
          /\ system_locked' = system_locked
          /\ positions' = positions]_vars

\* C7 witness: a signal of a configured, disabled strategy was turned down while
\* the broker had a ticket to give.
C7_Witness ==
    /\ pc = "reconcile" /\ io.received /\ io.replies = <<StrategyDisabled>>
    /\ FreeTickets(positions) # {}

\* C8 (P7): when the file holds a complete document in which a strategy is
\* disabled and the file's modification time is past the one the core loaded
\* last, a signal of that strategy handled now is rejected and no order is
\* submitted.
C8_HotDisableRejectsNextSignal ==
    [][(/\ IntakeStep
        /\ {"strategy_id", "action"} \subseteq io'.msg.keys
        /\ file.kind = "json" /\ file.json.system /\ file.json.hasStrategies
        /\ io'.msg.strategy_id \in DOMAIN file.json.strategies
        /\ ~file.json.strategies[io'.msg.strategy_id].enabled
        /\ fileMtime > last_config_mtime) =>
          /\ io'.replies \in {<<StrategyDisabled>>, <<RejectedLocked>>}
          /\ io'.order = <<>>]_vars

\* C8 witness: a signal was rejected as disabled by a core that, in the same run,
\* had opened a position (whose metadata it still holds) for a then enabled
\* strategy.
C8_Witness ==
    /\ pc = "reconcile" /\ io.received /\ io.replies = <<StrategyDisabled>>
    /\ \E t \in DOMAIN trade_metadata : tracked_tickets[t] = io.msg.strategy_id

\* C9: the in-memory configuration of a running core changes only by being
\* replaced with the complete document the file holds; a reload that meets a
\* missing, unparseable or incomplete file leaves it as it was.
C9_ConfigReplacedOnlyByValidDocument ==
    [][(config' # config /\ pc' # "down") =>
          /\ file.kind = "json" /\ file.json.system /\ file.json.hasStrategies
          /\ config' = file.json
          /\ last_config_mtime' = fileMtime]_vars

\* C9 witness: a governor cycle reloaded, met a file it refuses, and the core still
\* holds a complete configuration.
C9_Witness ==
    /\ pc = "snapshot" /\ gov.load = "refused"
    /\ config.system /\ config.hasStrategies

\* C10 (P3): the volume of a submitted order is the signal's volume when the field
\* is present and positive, and the strategy's configured lot size otherwise.
C10_OrderVolume ==
    io.order # <<>> =>
        io.order[1].volume =
            IF "volume" \in io.msg.keys /\ io.msg.volume.value > 0
            THEN io.msg.volume.value
            ELSE StrategiesOf(config)[io.msg.strategy_id].volume

\* C10 witness: an order was submitted for a signal whose volume field is present
\* and not positive.
C10_Witness ==
    /\ io.order # <<>>
    /\ "volume" \in io.msg.keys
    /\ io.msg.volume.value <= 0

\* C11 (P4): the take-profit price of a submitted order lies at the signal's
\* dynamic_tp from the order price when the signal carries one, and at the
\* configured take-profit distance otherwise (above the price for a BUY, below it
\* for a SELL; a distance that is not positive gives an order without take
\* profit); the stop-loss price lies at the configured stop-loss distance on the
\* other side, whatever the signal carries.
C11_TakeProfitAndStopLossDistance ==
    io.order # <<>> =>
        LET o == io.order[1]
            limits == StrategiesOf(config)[io.msg.strategy_id].trade_limits
            tpd == IF "dynamic_tp" \in io.msg.keys THEN io.msg.dynamic_tp ELSE limits.tp_points
            dir == IF io.msg.action = "BUY" THEN 1 ELSE -1
        IN  /\ o.tp = IF tpd > 0 THEN o.price + dir * tpd ELSE 0
            /\ o.sl = IF limits.sl_points > 0 THEN o.price - dir * limits.sl_points ELSE 0

\* C11 witness: an order was submitted for a signal whose dynamic_tp (2.0)
\* differs from the configured distance.
C11_Witness ==
    /\ io.order # <<>>
    /\ "dynamic_tp" \in io.msg.keys
    /\ io.msg.dynamic_tp > 0
    /\ io.msg.dynamic_tp # StrategiesOf(config)[io.msg.strategy_id].trade_limits.tp_points

\* The case of C12: a BUY signal without volume and dynamic_tp for the strategy
\* configured with tag 1001, lot 0.1, sl_points 5 and tp_points 10, executed with
\* the ask at 1.1000.
C12_Scenario ==
    /\ pc = "reconcile"
    /\ io.order # <<>>
    /\ io.msg.action = "BUY"
    /\ {"volume", "dynamic_tp"} \cap io.msg.keys = {}
    /\ StrategiesOf(config)[io.msg.strategy_id] = SettingsA(TRUE)

\* The part of the scenario of C12 that is about price, tag and lot, and about
\* what follows broker success: the ticket is tracked for the strategy and the
\* reply carries the ticket number.
C12_AfterOrder ==
    /\ io.order[1].price = 11000
    /\ io.order[1].magic = 1001
    /\ io.order[1].volume = 10
    /\ io.result = "done" =>
          \E t \in DOMAIN tracked_tickets :
              /\ tracked_tickets[t] = io.msg.strategy_id
              /\ io.replies = <<Opened(t, 10)>>

\* C12, as claimed: in the scenario the order has price 1.1000, stop loss 1.0995,
\* take profit 1.1010 and tag 1001.
C12_ScenarioAsClaimed ==
    C12_Scenario =>
        /\ C12_AfterOrder
        /\ io.order[1].sl = 10995
        /\ io.order[1].tp = 11010

\* C12, amended: the configured distances are price differences, applied as they
\* are: the stop loss is 1.1000 - 5 = -3.9000 and the take profit 1.1000 + 10 =
\* 11.1000; price, tag, tracking and reply are as claimed.
C12_ScenarioInPriceUnits ==
    C12_Scenario =>
        /\ C12_AfterOrder
        /\ io.order[1].sl = 11000 - 50000
        /\ io.order[1].tp = 11000 + 100000

\* C12 witness: the scenario's order was accepted by the broker.
C12_Witness == C12_Scenario /\ io.result = "done"

\* C13: for a signal whose order reached the broker: when the broker accepted it,
\* the new ticket is tracked for the signalling strategy and the reply is the
\* success string with that ticket and the order's volume; when it did not, no
\* ticket is added, TrackedPosition and TradeMetadata are unchanged and the reply
\* is the failure string with the broker's reason (the error reply when
\* order_send returned no result at all). No other intake step adds a ticket.
C13_TrackedIffAccepted ==
    [][IntakeStep =>
          IF io'.result = "done"
          THEN \E t \in LiveTickets(positions') \ LiveTickets(positions) :
                  /\ DOMAIN tracked_tickets' \ DOMAIN tracked_tickets = {t}
                  /\ tracked_tickets'[t] = io'.msg.strategy_id
                  /\ \A u \in DOMAIN tracked_tickets : tracked_tickets'[u] = tracked_tickets[u]
                  /\ io'.replies = <<Opened(t, io'.order[1].volume)>>
          ELSE /\ tracked_tickets' = tracked_tickets
               /\ trade_metadata' = trade_metadata
               /\ positions' = positions
               /\ io'.replies[1].kind # "OPENED"
               /\ io'.result = "rejected" => io'.replies = <<Failed(BrokerComment)>>
               /\ io'.result = "none" => io'.replies = <<InternalError>>]_vars

\* C13 witness: the broker turned an order down and the core answered with the
\* failure string.
C13_Witness ==
    /\ pc = "reconcile" /\ io.result = "rejected"
    /\ io.replies = <<Failed(BrokerComment)>>

\* A governor cycle that started unlocked and evaluated the enabled basket.
GovernorEvaluates ==
    /\ pc = "governor" /\ pc' = "snapshot"
    /\ ~system_locked
    /\ gov'.evaluated
    /\ config'.risk_management.basket_enabled

\* C14 (P5), as claimed: a governor cycle that starts unlocked with the basket
\* enabled and finds the summed profit + swap of the open positions at or above
\* the take-profit threshold sends a close order for every open position, tagged
\* with the position's own tag number, and leaves the system locked.
C14_BasketTakeProfitClosesAll ==
    [][(GovernorEvaluates /\ TpHit(config'.risk_management, gov'.profit)) =>
          /\ system_locked'
          /\ \A t \in LiveTickets(positions) :
                /\ gov'.closes[t] # <<>>
                /\ \A i \in DOMAIN gov'.closes[t] :
                      gov'.closes[t][i].magic = positions[t].magic]_vars

\* What holds of the case of C14: the system is locked in the same cycle, and
\* every close order that is sent carries the tag of the position it closes.
BasketTakeProfitLocks ==
    [][(GovernorEvaluates /\ TpHit(config'.risk_management, gov'.profit)) =>
          /\ system_locked'
          /\ \A t \in Tickets : \A i \in DOMAIN gov'.closes[t] :
                positions[t].status = "open" /\ gov'.closes[t][i].magic = positions[t].magic]_vars

\* C15 (P6), as claimed: the strategy_id of a trade record is the strategy under
\* which the ticket was opened (the strategy id the opening order carried).
C15_RecordedUnderOpeningStrategy ==
    \A r \in trades : r.strategy_id = positions[r.ticket].comment

\* What holds of C15: a record carries the strategy TrackedPosition held for the
\* ticket when reconciliation wrote it.
RecordedAsTracked ==
    [][\A r \in trades' \ trades :
          r.ticket \in DOMAIN tracked_tickets /\ r.strategy_id = tracked_tickets[r.ticket]]_vars

\* The config file a starting process would load names an authorized account
\* that is not the one the terminal is logged in to.
WrongAccount ==
    /\ file.kind = "json" /\ file.json.system /\ file.json.hasStrategies
    /\ file.json.authorized_account_number # 0
    /\ file.json.authorized_account_number # account

\* C16: with an expected account configured that differs from the authenticated
\* one, no process gets past startup: the loop is not entered, nothing is synced
\* into TrackedPosition, no signal is received, no order reaches the broker and
\* nothing is recorded.
C16_WrongAccountAbortsStartup ==
    [][(pc = "down" /\ WrongAccount) =>
          /\ pc' = "down"
          /\ tracked_tickets' = NoTickets
          /\ io' = IdleIO
          /\ trades' = trades
          /\ LiveTickets(positions') \subseteq LiveTickets(positions)]_vars

\* C16 witness: no process runs, the account is the wrong one, and the broker
\* holds an open position with a configured tag, which a startup would sync.
C16_Witness ==
    /\ pc = "down" /\ WrongAccount
    /\ \E t \in LiveTickets(positions) : positions[t].magic \in DOMAIN MagicMap(file.json)

\* Any two of the timestamps are at least the snapshot interval apart.
Apart(rows) ==
    \A t1, t2 \in rows : t1 # t2 => (t1 - t2 >= SNAPSHOT_INTERVAL \/ t2 - t1 >= SNAPSHOT_INTERVAL)

\* C17, as claimed: any two rows of equity_history are at least the snapshot
\* interval apart.
C17_SnapshotsApart == Apart(equity_history)

\* C17, amended: any two rows written by the same run of the core process are at
\* least the snapshot interval apart.
C17_SnapshotsApartWithinRun == Apart(written)

\* C17 witness: one run has written two snapshots.
C17_Witness == Cardinality(written) >= 2

\* C18, as claimed, for the reconciliation phase: once the phase has run, raising
\* or not, the risk evaluation runs next.
C18_GovernorFollowsReconciliation ==
    [][(pc = "reconcile" /\ pc' \notin {"down", "reconcile"}) => pc' = "governor"]_vars

\* What holds of C18: the loop goes on after every phase (only the end of the
\* process takes it out of the loop), and a failed intake step is followed by
\* reconciliation.
LoopContinues ==
    [][/\ (pc # "down" /\ pc' = "down") => (config' = EmptyConfig /\ io' = IdleIO)
       /\ (pc = "poll" /\ pc' \notin {"down", "poll"}) => pc' = "reconcile"
       /\ (pc = "governor" /\ pc' \notin {"down", "governor"}) => pc' = "snapshot"]_vars

\* C19, as claimed: the phases of an iteration follow one another in the order
\* intake, reconciliation, risk evaluation, snapshot, and then the next iteration
\* begins.
C19_PhasesInOrder ==
    [][(pc # "down" /\ pc' # "down" /\ pc' # pc) =>
          <<pc, pc'>> \in {<<"poll", "reconcile">>, <<"reconcile", "governor">>,
                           <<"governor", "snapshot">>, <<"snapshot", "poll">>}]_vars

\* What holds of C19: a signal is received, answered and executed only in the
\* intake step that opens an iteration, one per iteration, and so never between
\* the reconciliation and the risk evaluation.
SignalOnlyAtIntake ==
    [][/\ (io'.received /\ io' # io) => (pc = "poll" /\ pc' = "reconcile")
       /\ LiveTickets(positions') \ LiveTickets(positions) # {} => pc = "poll"
       /\ io.received => pc = "reconcile"]_vars

\* C20: a governor cycle that started unlocked and evaluated the enabled basket
\* calls close_all_positions and locks when the summed profit + swap is at or
\* above the take-profit threshold or at or below the stop-loss threshold; when
\* the sum lies strictly between the two, it sends no close order, leaves the
\* positions alone and stays unlocked.
C20_GovernorTriggers ==
    [][GovernorEvaluates =>
          LET risk == config'.risk_management
              hit == \/ (risk.basket_take_profit_usd # 0 /\ gov'.profit >= risk.basket_take_profit_usd)
                     \/ (risk.basket_stop_loss_usd # 0 /\ gov'.profit <= risk.basket_stop_loss_usd)
          IN  IF hit
              THEN system_locked' /\ gov'.calls >= 1
              ELSE /\ ~system_locked' /\ gov'.calls = 0
                   /\ gov'.closes = NoCloses
                   /\ positions' = positions]_vars

\* A step of the governor phase.
GovernorStep == pc = "governor" /\ pc' = "snapshot"

\* C21: a governor cycle that starts locked, or finds the basket disabled or not
\* configured (after its reload of the configuration), or finds no open position
\* at the broker, sends no close order, calls close_all_positions not at all and
\* leaves the lock and the broker's positions as they are, whatever the
\* thresholds say.
C21_GovernorNoOp ==
    [][(/\ GovernorStep
        /\ \/ system_locked
           \/ ~config'.risk_management.basket_enabled
           \/ LiveTickets(positions) = {}) =>
          /\ gov'.closes = NoCloses
          /\ gov'.calls = 0
          /\ system_locked' = system_locked
          /\ positions' = positions]_vars

\* C21 witness: a governor cycle has run unlocked over an open position with the
\* basket disabled and both thresholds configured.
C21_Witness ==
    /\ pc = "snapshot" /\ ~system_locked
    /\ ~config.risk_management.basket_enabled
    /\ config.risk_management.basket_take_profit_usd # 0
    /\ config.risk_management.basket_stop_loss_usd # 0
    /\ LiveTickets(positions) # {}

\* The summed profit + swap the broker reports under SpecLayout.
ReachedSum == ReachedProfit * Cardinality(LiveTickets(positions))

\* C22, as claimed: a governor cycle that starts unlocked over open positions
\* whose summed profit has reached the take-profit threshold of an enabled
\* risk-management block inside the system section triggers (close-all and lock).
C22_SystemSectionThresholdsEvaluated ==
    [][(/\ GovernorStep /\ ~system_locked
        /\ LiveTickets(positions) # {}
        /\ config'.system_risk_management.basket_enabled
        /\ TpHit(config'.system_risk_management, ReachedSum)) =>
          system_locked' /\ gov'.calls >= 1]_vars

\* C22, amended: the thresholds the governor evaluates are those of the
\* top-level risk_management block: with that block enabled and its take-profit
\* threshold reached the governor triggers; without it the governor does not
\* trigger, whatever risk-management block the system section holds.
C22_TopLevelThresholdsEvaluated ==
    [][(GovernorStep /\ ~system_locked /\ LiveTickets(positions) # {}) =>
          IF config'.risk_management.basket_enabled
             /\ TpHit(config'.risk_management, ReachedSum)
          THEN system_locked' /\ gov'.calls >= 1 /\ gov'.profit = ReachedSum
          ELSE ~system_locked' /\ gov'.calls = 0 /\ positions' = positions]_vars

\* C22 witness: the governor has triggered on the thresholds of the top-level
\* block.
C22_Witness ==
    /\ pc = "snapshot" /\ system_locked /\ gov.evaluated /\ gov.calls >= 1
    /\ config.risk_management.basket_enabled
    /\ ~config.system_risk_management.basket_enabled

\* C23: once the governor has triggered, the lock stays set for the rest of the
\* run, and every later governor cycle of the run sends no close order and
\* leaves the broker's positions as they are: a position whose close order
\* failed or was skipped stays open as far as the core is concerned.
C23_NoCloseAfterTrigger ==
    [][system_locked =>
          /\ pc' # "down" => system_locked'
          /\ GovernorStep => /\ gov'.closes = NoCloses
                              /\ gov'.calls = 0
                              /\ positions' = positions]_vars

\* C23 witness: a governor cycle has run locked while a position is still open
\* (signals are rejected under the lock, so it was open when the governor
\* triggered).
C23_Witness ==
    /\ pc = "snapshot" /\ system_locked
    /\ gov = IdleGov
    /\ LiveTickets(positions) # {}

\* C28: a signal for which symbol_info_tick gives no tick is answered with the
\* no-data reply, and no order is submitted, nothing is tracked and nothing
\* changes at the broker; for any received signal order_send is called at most
\* once, also when the broker rejects the order or returns nothing; and after
\* every received signal, whatever its outcome, the loop goes on with the
\* reconciliation phase.
C28_NoDataAndNoRetry ==
    [][(pc = "poll" /\ io'.received) =>
          /\ Len(io'.order) <= 1
          /\ pc' = "reconcile"
          /\ Len(io'.replies) = 1
          /\ io'.tick = "none" =>
                /\ io'.replies = <<NoData>>
                /\ io'.order = <<>>
                /\ tracked_tickets' = tracked_tickets
                /\ positions' = positions
          /\ io'.replies = <<NoData>> => io'.tick = "none"]_vars

\* C28 witness: a signal of an enabled strategy met a missing tick and got the
\* no-data reply.
C28_Witness ==
    /\ pc = "reconcile" /\ io.received /\ io.tick = "none"
    /\ io.replies = <<NoData>>
    /\ StrategyGate(config, io.msg.strategy_id) = "ok"

\* C20 witness: two positions whose profits sum to exactly the take-profit
\* threshold made the governor lock.
C20_Witness ==
    /\ pc = "snapshot" /\ system_locked /\ gov.evaluated
    /\ gov.profit = config.risk_management.basket_take_profit_usd
    /\ Cardinality({t \in Tickets : gov.closes[t] # <<>>}) >= 2

\* C24: reconciliation looks only at tracked tickets the broker no longer lists.
\* A ticket the broker lists as open when the phase runs (also one closed in
\* part, whose history already shows an exit deal) stays tracked under the same
\* strategy with its metadata and gets no record in that phase, and every ticket
\* the phase removes or records was tracked and is not listed.
C24_OnlyMissingTicketsReconciled ==
    [][ReconcileStep =>
          /\ \A t \in LiveTickets(positions) \cap DOMAIN tracked_tickets :
                /\ t \in DOMAIN tracked_tickets'
                /\ tracked_tickets'[t] = tracked_tickets[t]
                /\ MetaOf(t, trade_metadata') = MetaOf(t, trade_metadata)
                /\ RecordsOf(t)' = RecordsOf(t)
          /\ \A t \in Tickets :
                (t \in DOMAIN tracked_tickets \ DOMAIN tracked_tickets' \/ RecordsOf(t)' # RecordsOf(t))
                => t \in DOMAIN tracked_tickets \ LiveTickets(positions)]_vars

\* C24 witness: a reconciliation phase has recorded one ticket while another,
\* closed in part and still listed by the broker, is tracked and has no record.
C24_Witness ==
    /\ pc = "governor"
    /\ \E t, u \in Tickets :
         /\ positions[t].status = "reduced" /\ t \in DOMAIN tracked_tickets
         /\ RecordsOf(t) = {}
         /\ u \in reconciled /\ RecordsOf(u) # {} /\ u \notin DOMAIN tracked_tickets

\* A tracked ticket the broker no longer lists.
Gone(t) == t \in DOMAIN tracked_tickets \ LiveTickets(positions)

\* C25, as claimed: in every reconciliation phase, a tracked ticket the broker no
\* longer lists whose history shows no exit deal stays tracked with its strategy
\* and metadata and gets no record, however many phases have looked at it before;
\* one whose exit deal is visible has its record in the trades table and is no
\* longer tracked when the phase ends.
C25_GapRetriedThenRecorded ==
    [][ReconcileStep =>
          \A t \in Tickets :
              Gone(t) =>
                 IF HasExitDeal(positions[t])
                 THEN t \notin DOMAIN tracked_tickets' /\ Cardinality(RecordsOf(t)') = 1
                 ELSE /\ t \in DOMAIN tracked_tickets'
                      /\ tracked_tickets'[t] = tracked_tickets[t]
                      /\ MetaOf(t, trade_metadata') = MetaOf(t, trade_metadata)
                      /\ RecordsOf(t)' = RecordsOf(t)]_vars

\* The part of C25 that holds: the ticket without exit deal is kept, with its
\* metadata and without record, by every phase; once the exit deal is visible the
\* next phase stops tracking it.
GapRetried ==
    [][ReconcileStep =>
          \A t \in Tickets :
              Gone(t) =>
                 IF HasExitDeal(positions[t])
                 THEN t \notin DOMAIN tracked_tickets'
                 ELSE /\ t \in DOMAIN tracked_tickets'
                      /\ tracked_tickets'[t] = tracked_tickets[t]
                      /\ MetaOf(t, trade_metadata') = MetaOf(t, trade_metadata)
                      /\ RecordsOf(t)' = RecordsOf(t)]_vars

\* The gap at work: the governor runs after a reconciliation phase that kept a
\* ticket the broker no longer lists, for want of an exit deal.
GapSeen ==
    /\ pc = "governor"
    /\ \E t \in Tickets : Gone(t) /\ positions[t].status = "closed" /\ MetaOf(t, trade_metadata) # ""

\* The deals a record was built from.
DealsOf(r) == positions[r.ticket].history

\* profit + swap + commission of the exit deal.
DealSum(h) == h.profit + h.swap + h.commission

\* The close reason the claim names for each reason code.
ReasonAsClaimed(r) ==
    r.reason = CASE DealsOf(r).reason = "CLIENT" -> "Manual Close"
                 [] DealsOf(r).reason = "SL" -> "Stop Loss"
                 [] DealsOf(r).reason = "TP" -> "Take Profit"
                 [] OTHER -> "Unknown"

\* C26, as claimed: every record in the trades table has net_pnl = profit + swap +
\* commission of the exit deal, duration = exit deal time minus entry deal time
\* (where the history has an entry deal), and the close reason Manual Close /
\* Stop Loss / Take Profit for client / SL / TP and Unknown for every other code.
C26_RecordIsSumOfDeals ==
    \A r \in trades :
        /\ r.net_pnl = DealSum(DealsOf(r))
        /\ DealsOf(r).entry => r.duration = DealsOf(r).exit_time - DealsOf(r).entry_time
        /\ ReasonAsClaimed(r)

\* C26, amended: net_pnl is the sum rounded to hundredths (a multiple of a
\* hundredth at most half a hundredth away from the sum); duration is exit deal
\* time minus entry deal time, and 0 when the history has no entry deal; the close
\* reason is as claimed.
C26_RecordIsRoundedSumOfDeals ==
    \A r \in trades :
        /\ r.net_pnl % 10 = 0
        /\ r.net_pnl - DealSum(DealsOf(r)) \in -5..5
        /\ r.duration = IF DealsOf(r).entry
                        THEN DealsOf(r).exit_time - DealsOf(r).entry_time ELSE 0
        /\ ReasonAsClaimed(r)

\* C26 witness: a position closed by a program at a loss of 0.996 is recorded with
\* -1.00, its duration and the reason Unknown.
C26_Witness ==
    \E r \in trades :
        /\ DealsOf(r).reason = "EXPERT" /\ DealSum(DealsOf(r)) = -996
        /\ r.net_pnl = -1000 /\ r.duration = 30 /\ r.reason = "Unknown"

\* A record built from a history without entry deal: duration 0.
RecordedWithoutEntry == \E r \in trades : ~DealsOf(r).entry /\ r.duration = 0 /\ r.reason = "Take Profit"

\* The extra_metrics bag of the signal that opened ticket t (the order comment is
\* the strategy of the signal, and MetricSignals has one signal per strategy).
OpeningMetrics(t) ==
    (CHOOSE sig \in MetricSignals : sig.strategy_id = positions[t].comment).extra_metrics

\* C27, as claimed: every record carries the extra_metrics bag of the signal that
\* opened its ticket, and no TradeMetadata entry remains for a ticket
\* reconciliation has finished with.
C27_MetricsCarriedIntoRecord ==
    /\ \A r \in trades : r.extra_metrics = OpeningMetrics(r.ticket)
    /\ \A t \in reconciled : t \notin DOMAIN trade_metadata

\* The part of C27 that holds: a TradeMetadata entry is the bag of the signal that
\* opened its ticket, a record carries that bag or none, never the bag of another
\* ticket, and no entry remains for a reconciled ticket.
MetricsNeverMixed ==
    /\ \A t \in DOMAIN trade_metadata : trade_metadata[t] = OpeningMetrics(t)
    /\ \A r \in trades : r.extra_metrics \in {"", OpeningMetrics(r.ticket)}
    /\ \A t \in reconciled : t \notin DOMAIN trade_metadata

\* Within one run the record takes the bag TradeMetadata holds for the ticket.
RecordTakesMetadata ==
    [][ReconcileStep =>
          \A t \in Tickets :
              RecordsOf(t)' # RecordsOf(t) =>
                 \A r \in RecordsOf(t)' : r.extra_metrics = MetaOf(t, trade_metadata)]_vars

\* Records of two tickets, each with the bag of its own signal.
BothBagsRecorded ==
    \E r1, r2 \in trades : r1.extra_metrics = "m1" /\ r2.extra_metrics = "m2"

\* The config file holds a complete document the core has not loaded: a hot edit
\* waiting to be taken over.
EditPending ==
    /\ file.kind = "json" /\ file.json.system /\ file.json.hasStrategies
    /\ get_file_mtime(file, fileMtime) > last_config_mtime

\* C29, as claimed: a hot edit propagates within one loop cycle in every state of
\* the core. The governor is the one config-dependent phase that runs in every
\* iteration, with or without a signal, so an edit that waits when it starts is in
\* memory when it ends: the configuration then equals the file's content.
C29_HotEditsPropagate ==
    [][(GovernorStep /\ EditPending) =>
          config' = file.json /\ last_config_mtime' = get_file_mtime(file, fileMtime)]_vars

\* The part of C29 that holds: while the system is not locked, the governor phase
\* takes a waiting edit over, whether or not a signal arrived.
HotEditsPropagateUnlocked ==
    [][(GovernorStep /\ EditPending /\ ~system_locked) =>
          config' = file.json /\ last_config_mtime' = get_file_mtime(file, fileMtime)]_vars

\* Once locked, a running core never changes its configuration again.
LockedConfigFrozen ==
    [][(system_locked /\ pc' # "down") =>
          config' = config /\ last_config_mtime' = last_config_mtime]_vars

\* The governor phase has returned at the lock check with the edit still waiting.
EditWaitsWhileLocked ==
    /\ pc = "snapshot" /\ system_locked /\ gov = IdleGov /\ EditPending /\ config # file.json

\* An edit taken over by the governor phase.
EditTakenByGovernor ==
    /\ pc = "snapshot" /\ gov.load = "replaced" /\ config = file.json
    /\ \E d \in ValidDocs : d # config

\* What load_config would leave and return, called in the current state.
Loaded == load_config(config, last_config_mtime, file, fileMtime)

\* The states in which the core calls load_config next: at startup (line 321), and
\* in execute_trade and check_basket_logic while the system is not locked.
CallsLoad == pc = "down" \/ (pc \in {"poll", "governor"} /\ ~system_locked)

Incomplete == file.kind = "json" /\ ~(file.json.system /\ file.json.hasStrategies)

\* C30, as claimed: load_config reports failure when the file is absent, when it is
\* malformed and when it lacks the system or the strategies section, whether or
\* not a configuration was loaded before.
C30_LoadReportsFailure ==
    (CallsLoad /\ (file.kind \in {"missing", "garbage"} \/ Incomplete)) => ~Loaded.ok

\* The part of C30 that holds: an absent file is always reported, a malformed one
\* when its modification time is newer than that of the last load, all three when
\* no configuration is in memory; and none of the three changes the configuration.
LoadFailureReported ==
    CallsLoad =>
       /\ file.kind = "missing" => ~Loaded.ok
       /\ (file.kind = "garbage" /\ get_file_mtime(file, fileMtime) > last_config_mtime)
             => ~Loaded.ok
       /\ ((file.kind = "garbage" \/ Incomplete) /\ config = EmptyConfig) => ~Loaded.ok
       /\ (file.kind \in {"missing", "garbage"} \/ Incomplete)
             => (Loaded.config = config /\ Loaded.last = last_config_mtime)

\* The governor is about to call load_config on a newer file without strategies
\* section, with a configuration in memory: the call reports success.
IncompleteReportedLoaded ==
    /\ pc = "governor" /\ ~system_locked /\ Incomplete
    /\ get_file_mtime(file, fileMtime) > last_config_mtime
    /\ config # EmptyConfig /\ Loaded.ok

\* The same for a malformed file written within the clock granularity of the
\* last load.
MalformedReportedLoaded ==
    /\ pc = "governor" /\ ~system_locked /\ file.kind = "garbage"
    /\ config # EmptyConfig /\ Loaded.ok

\* A startup that meets an incomplete file reports the failure.
IncompleteAtStartup == pc = "down" /\ Incomplete /\ ~Loaded.ok

(* -------------------------------- shutdown ----------------------------- *)

\* The memory of a process that has ended (the module-level values of lines
\* 15-23 are what the next process starts from).
MemoryGone ==
    /\ pc' = "down"
    /\ config' = EmptyConfig
    /\ last_config_mtime' = 0
    /\ tracked_tickets' = NoTickets
    /\ trade_metadata' = NoTickets
    /\ system_locked' = FALSE
    /\ last_snapshot_time' = 0
    /\ written' = {}
    /\ gov' = IdleGov

\* KeyboardInterrupt raised while the intake handler runs (lines 347-357): it is
\* not an Exception, so the handler of lines 354-357 does not see it and the one
\* of lines 364-366 leaves the loop. The message was received; sent: order_send
\* had been called when the interrupt arrived. No reply is sent.
InterruptedIntake ==
    /\ pc = "poll"
    /\ \E sig \in PlainSignals, orderRes \in {"done", "rejected"}, sent \in BOOLEAN :
         /\ orderRes = "done" => NextTicket(positions) \in 1..MaxTickets
         /\ LET r == Intake(sig, TRUE, orderRes)
            IN  /\ positions' = IF sent THEN r.positions ELSE positions
                /\ io' = [received |-> TRUE, msg |-> sig, replies |-> <<>>,
                          order |-> IF sent THEN r.order ELSE <<>>,
                          tick |-> r.tick,
                          result |-> IF sent /\ r.order # <<>> THEN orderRes ELSE "",
                          read |-> ""]
    /\ MemoryGone
    /\ UNCHANGED <<file, fileMtime, trades, reconciled, clockVars, peerVars>>

\* KeyboardInterrupt raised in check_closed_trades between db.log_trade (line
\* 191) and the del of line 193, for the first ticket of the loop: the record is
\* in the table, the ticket was still tracked when the loop was left.
InterruptedReconcile ==
    /\ pc = "reconcile"
    /\ ClosedWithExit(tracked_tickets, positions) # {}
    /\ LET todo == ClosedWithExit(tracked_tickets, positions)
           t == CHOOSE x \in todo : \A y \in todo : x <= y
       IN  trades' = log_trade(trades, TradeRecord(t, tracked_tickets, trade_metadata, positions),
                               "ok")
    /\ io' = IdleIO
    /\ MemoryGone
    /\ UNCHANGED <<file, fileMtime, positions, reconciled, clockVars, peerVars>>

\* The core with one kind of signal and a working trades table, interrupted
\* between two phases (Stop) or within the intake or the reconciliation phase.
NextShutdown ==
    \/ Start
    \/ Stop
    \/ InterruptedIntake
    \/ InterruptedReconcile
    \/ RestartSignal
    \/ NoMessage
    \/ ReconcileOk
    \/ Governor
    \/ SnapshotSkipped
    \/ PositionCloses
    \/ DealPosts

SpecShutdown == InitRecords /\ [][NextShutdown]_vars

\* The process ends.
ExitStep == pc # "down" /\ pc' = "down"

\* C31, as claimed: the loop is left only between iterations; no request that was
\* received is left without reply, no order is sent and no record written in
\* the step that ends the process.
C31_ExitOnlyBetweenIterations ==
    [][ExitStep =>
          /\ pc = "poll"
          /\ ~io'.received
          /\ positions' = positions
          /\ trades' = trades]_vars

\* A request was received and its order accepted by the broker, and the process
\* ended without reply.
OpenedWithoutReply ==
    /\ pc = "down" /\ io.received /\ io.replies = <<>> /\ io.result = "done"
    /\ \E t \in Tickets : positions[t].status = "open"

(* --------------------------------- orders ------------------------------ *)

\* Signals of both directions, one whose action is outside the enum, and
\* dynamic_tp values that are negative and zero. Strategy A has both distances
\* configured, strategy B a stop-loss distance of 0.
OrderSignals ==
    {Sig(BaseKeys, "A", "BUY", 0, TRUE, ""),
     Sig(BaseKeys, "B", "SELL", 0, TRUE, ""),
     Sig(BaseKeys, "A", "HOLD", 0, TRUE, ""),
     WithDynamicTp(Sig(BaseKeys, "A", "BUY", 0, TRUE, ""), -20),
     WithDynamicTp(Sig(BaseKeys, "B", "SELL", 0, TRUE, ""), 0),
     WithDynamicTp(Sig(BaseKeys, "A", "SELL", 0, TRUE, ""), 20)}

OrderSignal == HandleSignalOf(OrderSignals, MaxTickets)

\* One run of the core with the basket disabled and every kind of order.
NextOrders ==
    \/ Start
    \/ OrderSignal
    \/ NoMessage
    \/ ReconcileOk
    \/ Governor
    \/ SnapshotSkipped
    \/ PositionCloses
    \/ DealPosts

SpecOrders == InitRecords /\ [][NextOrders]_vars

\* C32, as claimed: every order handed to the broker has the direction the
\* signal's action names, a BUY order priced at ask and a SELL order at bid; a
\* signal with any other action leads to no order.
C32_OrderDirectionIsAction ==
    [][IntakeStep =>
          \A i \in DOMAIN io'.order :
              /\ io'.order[i].type = io'.msg.action
              /\ io'.order[i].type \in {"BUY", "SELL"}
              /\ io'.order[i].price = IF io'.order[i].type = "BUY" THEN Ask ELSE Bid]_vars

\* The part of C32 that holds: a BUY order, priced at ask, is sent only for the
\* action BUY, and the action SELL gets a SELL order priced at bid.
BuyOnlyForBuy ==
    [][IntakeStep =>
          \A i \in DOMAIN io'.order :
              /\ io'.order[i].type = "BUY" <=> io'.msg.action = "BUY"
              /\ io'.msg.action = "SELL" => io'.order[i].type = "SELL"
              /\ io'.order[i].price = IF io'.order[i].type = "BUY" THEN Ask ELSE Bid]_vars

\* A signal whose action is neither BUY nor SELL opened a short position.
SoldOnOtherAction ==
    /\ pc = "reconcile" /\ io.received /\ io.msg.action \notin {"BUY", "SELL"}
    /\ io.order # <<>> /\ io.order[1].type = "SELL" /\ io.result = "done"
    /\ io.replies # <<>> /\ io.replies[1].kind = "OPENED"

\* The distances execute_trade works with for the signal of the last intake.
DistancesOf(msg) ==
    LET limits == StrategiesOf(config)[msg.strategy_id].trade_limits
    IN  [sl |-> limits.sl_points,
         tp |-> IF "dynamic_tp" \in msg.keys THEN msg.dynamic_tp ELSE limits.tp_points]

\* C37: every order handed to the broker has its stop-loss at 0 or strictly below
\* the order price and its take-profit at 0 or strictly above it when it is a BUY
\* order, and the reverse when it is a SELL order; a stop-loss or take-profit
\* distance that is not positive, configured or sent as dynamic_tp, gives 0.
C37_ProtectivePricesOnCorrectSide ==
    \A i \in DOMAIN io.order :
        LET o == io.order[i]
        IN  /\ o.type = "BUY" => (o.sl = 0 \/ o.sl < o.price) /\ (o.tp = 0 \/ o.tp > o.price)
            /\ o.type = "SELL" => (o.sl = 0 \/ o.sl > o.price) /\ (o.tp = 0 \/ o.tp < o.price)
            /\ DistancesOf(io.msg).sl <= 0 => o.sl = 0
            /\ DistancesOf(io.msg).tp <= 0 => o.tp = 0

\* C37 witness: a BUY order for a signal whose dynamic_tp is negative went out
\* without take-profit and with its stop-loss below the price.
C37_Witness ==
    /\ io.order # <<>> /\ io.order[1].type = "BUY"
    /\ "dynamic_tp" \in io.msg.keys /\ io.msg.dynamic_tp < 0
    /\ io.order[1].tp = 0 /\ io.order[1].sl # 0

\* A SELL order of the strategy configured with a stop-loss distance of 0 went
\* out without stop-loss and with its take-profit below the price.
SellWithoutStopLoss ==
    /\ io.order # <<>> /\ io.order[1].type = "SELL" /\ io.order[1].sl = 0
    /\ io.order[1].tp # 0 /\ io.order[1].tp < io.order[1].price

\* C38, as claimed: the direction stored in a record is the direction of the
\* order that opened its ticket, whether or not the deal history holds the entry
\* deal.
C38_RecordDirectionIsOrderDirection ==
    \A r \in trades : r.action = positions[r.ticket].type

\* The part of C38 that holds: a record built from a history that holds the entry
\* deal has the direction of the opening order.
DirectionFromEntryDeal ==
    \A r \in trades : DealsOf(r).entry => r.action = positions[r.ticket].type

\* A long position whose history lacks the entry deal is recorded as SELL.
LongRecordedAsSell ==
    \E r \in trades : positions[r.ticket].type = "BUY" /\ ~DealsOf(r).entry /\ r.action = "SELL"

\* C39: every close order the governor sends names a position the broker lists
\* as open when the cycle starts, has the direction opposite to that position's
\* (SELL at bid for a long, BUY at ask for a short), its volume and its tag, and
\* the cycle leaves no position open that was not open before.
C39_CloseOrdersOnlyReduce ==
    [][GovernorStep =>
          /\ \A t \in Tickets : \A i \in DOMAIN gov'.closes[t] :
                LET o == gov'.closes[t][i]
                    p == positions[t]
                IN  /\ t \in LiveTickets(positions)
                    /\ o.position = t
                    /\ p.type = "BUY" => (o.type = "SELL" /\ o.price = Bid)
                    /\ p.type = "SELL" => (o.type = "BUY" /\ o.price = Ask)
                    /\ o.volume = p.volume /\ o.volume > 0
                    /\ o.magic = p.magic
          /\ LiveTickets(positions') \subseteq LiveTickets(positions)]_vars

\* C39 witness: a cycle has sent a close order for a long and one for a short
\* position.
C39_Witness ==
    /\ pc = "snapshot"
    /\ \E t, u \in Tickets :
         /\ positions[t].type = "BUY" /\ gov.closes[t] # <<>> /\ gov.closes[t][1].type = "SELL"
         /\ positions[u].type = "SELL" /\ gov.closes[u] # <<>> /\ gov.closes[u][1].type = "BUY"

(* ------------------------- overlapping thresholds ---------------------- *)

\* A basket whose take-profit threshold lies below its stop-loss threshold: a
\* profit between the two meets both conditions.
OverlapRisk ==
    [basket_enabled |-> TRUE, basket_take_profit_usd |-> 20, basket_stop_loss_usd |-> 30]

\* Between the thresholds, and above both.
OverlapProfits == {25, 40}

InitOverlap == InitWith({JsonFile(Document("on", OverlapRisk))}, {AuthorizedAccount})

OverlapGovernor == GovernorWith(OverlapProfits, BOOLEAN)

\* The core over several runs with the overlapping thresholds.
NextOverlap ==
    \/ Start
    \/ Stop
    \/ RestartSignal
    \/ NoMessage
    \/ ReconcileOk
    \/ OverlapGovernor
    \/ SnapshotSkipped
    \/ PositionCloses
    \/ DealPosts

SpecOverlap == InitOverlap /\ [][NextOverlap]_vars

\* C36, as claimed: a governor cycle sends at most one close order for a
\* position, whatever the two thresholds are.
C36_AtMostOneCloseOrder ==
    [][GovernorStep => \A t \in Tickets : Len(gov'.closes[t]) <= 1]_vars

\* What holds of C36: one call of close_all_positions sends at most one close
\* order for a position, so a cycle sends at most as many as it makes calls, and
\* it makes two calls only when both conditions hold.
OneCloseOrderPerCall ==
    [][GovernorStep =>
          /\ \A t \in Tickets : Len(gov'.closes[t]) <= gov'.calls
          /\ gov'.calls = 2 =>
                /\ TpHit(config'.risk_management, gov'.profit)
                /\ SlHit(config'.risk_management, gov'.profit)]_vars

\* A cycle has sent two close orders for the same position.
ClosedTwice == pc = "snapshot" /\ \E t \in Tickets : Len(gov.closes[t]) = 2

\* C34: in every state, every ticket TradeMetadata has an entry for is a key of
\* TrackedPosition.
C34_MetadataOnlyForTracked == DOMAIN trade_metadata \subseteq DOMAIN tracked_tickets

\* C34 witness: reconciliation has recorded a ticket with its bag and removed
\* both entries, while another ticket is tracked with metadata.
C34_Witness ==
    /\ pc = "governor"
    /\ \E t, u \in Tickets :
         /\ t \in reconciled /\ \E r \in RecordsOf(t) : r.extra_metrics # ""
         /\ t \notin DOMAIN tracked_tickets
         /\ u \in DOMAIN trade_metadata

(* ------------------------------ broker reads --------------------------- *)

\* Reconciliation and governor with the answers of positions_get kept.
SeenReconcile == ReconcileSeen({"ok"}, BOOLEAN, TRUE)

SeenGovernor == GovernorSeen(BasketProfits, BOOLEAN, TRUE)

\* One run of the core with the basket enabled, positions of two strategies and
\* a terminal that may give no answer to positions_get.
NextReads ==
    \/ Start
    \/ BasketSignal
    \/ NoMessage
    \/ SeenReconcile
    \/ SeenGovernor
    \/ SnapshotSkipped
    \/ PositionCloses
    \/ DealPosts

SpecReads == InitBasket /\ [][NextReads]_vars

GovernorReadFailed ==
    /\ pc = "snapshot" /\ gov.read = "none" /\ ~system_locked
    /\ LiveTickets(positions) # {} /\ config.risk_management.basket_enabled

(* ---------------------------- a signal engine -------------------------- *)

\* Signal_Velocity lines 350-352: send_json on the REQ socket, then recv_string.
\* One request of this engine is under way at a time (a second one while the
\* first is still in the core's queue is left out). The request reaches the
\* queue of the core's REP socket when the core has bound its port (line 329).
SendSignal ==
    /\ caller.state # "waiting"
    /\ ~caller.queued
    /\ caller' = [state |-> "waiting", queued |-> pc # "down", abandoned |-> FALSE]
    /\ UNCHANGED <<pc, coreVars, file, fileMtime, positions, trades, reconciled, io, gov,
                   clockVars, launcher>>

\* Signal_Velocity lines 170-171 and 353-356: no reply within RCVTIMEO (2 s)
\* raises zmq.Again; the engine closes the socket (LINGER 0) and connects a new
\* one. A request the core's socket has already taken in stays in its queue.
RecvTimeout ==
    /\ caller.state = "waiting"
    /\ caller' = [state |-> "failed", queued |-> caller.queued, abandoned |-> caller.queued]
    /\ UNCHANGED <<pc, coreVars, file, fileMtime, positions, trades, reconciled, io, gov,
                   clockVars, launcher>>

\* What the engine makes of a reply (line 352 prints it; the callers' rule is
\* that a reply without OPENED is a failure).
Observed(replies) ==
    IF replies # <<>> /\ replies[1].kind = "OPENED" THEN "opened" ELSE "refused"

\* Trade_Manager lines 347-351 with the engine's request in the queue: the
\* request is executed; the reply reaches the engine when its socket is still
\* the one that sent the request, and is dropped otherwise.
ServeRequest ==
    /\ caller.queued
    /\ ReceiveSignal(PlainSignals, MaxTickets, TRUE)
    /\ caller' = [state |-> IF caller.abandoned THEN caller.state ELSE Observed(io'.replies),
                  queued |-> FALSE, abandoned |-> FALSE]

\* Trade_Manager lines 352-353 with nothing in the queue.
IdlePoll == ~caller.queued /\ NoMessage

\* The core and one signal engine as two processes; the phases of the core
\* take as long as the terminal and the database take.
NextCaller ==
    \/ Start
    \/ SendSignal
    \/ RecvTimeout
    \/ ServeRequest
    \/ IdlePoll
    \/ ReconcileOk
    \/ Governor
    \/ SnapshotSkipped
    \/ PositionCloses
    \/ DealPosts

SpecCaller == InitRecords /\ [][NextCaller]_vars

\* The intake step opened a position and tracks it.
OpenedHere ==
    \E t \in Tickets :
        /\ positions[t].status = "none" /\ positions'[t].status = "open"
        /\ t \in DOMAIN tracked_tickets'

\* C33, as claimed: the engine sees a reply with OPENED exactly when the core
\* opened and tracked a position for its signal, and for a signal the engine
\* has given up no position is opened.
C33_OpenedSeenIffOpened ==
    [][IntakeStep =>
          /\ (caller'.state = "opened") <=> OpenedHere
          /\ caller.abandoned => ~OpenedHere]_vars

\* The direction of C33 that holds: a reply with OPENED is seen only for a
\* position the core opened and tracks.
OpenedSeenOnlyIfOpened ==
    [][(IntakeStep /\ caller'.state = "opened") => OpenedHere]_vars

\* The engine counted its signal as failed, and the core has executed it since:
\* the position is open and tracked.
OpenedAfterGivenUp ==
    /\ pc = "reconcile" /\ io.received /\ io.result = "done"
    /\ caller.state = "failed" /\ ~caller.queued
    /\ \E t \in DOMAIN tracked_tickets : positions[t].status = "open"

\* The engine saw OPENED for a position that is open and tracked.
OpenedSeen ==
    /\ pc = "reconcile" /\ caller.state = "opened" /\ io.result = "done"
    /\ \E t \in DOMAIN tracked_tickets : positions[t].status = "open"

(* ------------------------------ the launcher --------------------------- *)

\* Launcher.main lines 36-104: the Trade Manager is started as python
\* Trade_Manager.py, the dashboard (when its script exists) as streamlit, and
\* every enabled strategy whose script exists as cmd /k python script: the
\* process the launcher holds for a strategy is the command shell, and the
\* engine is the interpreter the shell started.
LauncherStart ==
    /\ launcher.pc = "off"
    /\ \E hasDash \in BOOLEAN, started \in SUBSET StrategyIds :
         launcher' =
             [pc |-> "monitor", left |-> "", manager |-> "running",
              dash |-> IF hasDash THEN "running" ELSE "none", restarts |-> 0,
              shell |-> [k \in StrategyIds |-> IF k \in started THEN "running" ELSE "none"],
              engine |-> [k \in StrategyIds |-> IF k \in started THEN "running" ELSE "none"]]
    /\ UNCHANGED <<pc, coreVars, file, fileMtime, positions, trades, reconciled, io, gov,
                   clockVars, caller>>

\* The Trade Manager process ends by itself.
ManagerDies ==
    /\ launcher.pc \in {"monitor", "cleanup"}
    /\ launcher.manager = "running"
    /\ launcher' = [launcher EXCEPT !.manager = "exited"]
    /\ UNCHANGED <<pc, coreVars, file, fileMtime, positions, trades, reconciled, io, gov,
                   clockVars, caller>>

\* The dashboard process ends by itself.
DashboardCrashes ==
    /\ launcher.pc \in {"monitor", "cleanup"}
    /\ launcher.dash = "running"
    /\ launcher.restarts < MaxRestarts
    /\ launcher' = [launcher EXCEPT !.dash = "exited"]
    /\ UNCHANGED <<pc, coreVars, file, fileMtime, positions, trades, reconciled, io, gov,
                   clockVars, caller>>

\* A strategy script ends by itself; cmd /k keeps its shell (and window) open.
EngineExits ==
    /\ launcher.pc \in {"monitor", "cleanup"}
    /\ \E k \in StrategyIds :
         /\ launcher.engine[k] = "running"
         /\ launcher' = [launcher EXCEPT !.engine[k] = "exited"]
    /\ UNCHANGED <<pc, coreVars, file, fileMtime, positions, trades, reconciled, io, gov,
                   clockVars, caller>>

\* Lines 108-119, one pass of the monitor loop that finds something to do: the
\* manager is looked at first, the dashboard is restarted only when the manager
\* is alive.
MonitorPoll ==
    /\ launcher.pc = "monitor"
    /\ \/ /\ launcher.manager # "running"
          /\ launcher' = [launcher EXCEPT !.pc = "cleanup", !.left = "manager"]
       \/ /\ launcher.manager = "running"
          /\ launcher.dash = "exited"
          /\ launcher' = [launcher EXCEPT !.dash = "running", !.restarts = @ + 1]
    /\ UNCHANGED <<pc, coreVars, file, fileMtime, positions, trades, reconciled, io, gov,
                   clockVars, caller>>

\* Lines 121-122: Ctrl-C in the monitor loop.
LauncherInterrupt ==
    /\ launcher.pc = "monitor"
    /\ launcher' = [launcher EXCEPT !.pc = "cleanup", !.left = "interrupt"]
    /\ UNCHANGED <<pc, coreVars, file, fileMtime, positions, trades, reconciled, io, gov,
                   clockVars, caller>>

\* p.terminate() of line 130 on a process that poll() shows running.
Terminated(p) == IF p = "running" THEN "terminated" ELSE p

\* Lines 125-132: the current dashboard joins the list, and every process of the
\* list that is still running is terminated. The list holds the shells of the
\* strategies; terminate() ends the process it is called on and none that this
\* process started.
Cleanup ==
    /\ launcher.pc = "cleanup"
    /\ launcher' = [launcher EXCEPT !.pc = "done",
                                    !.manager = Terminated(@),
                                    !.dash = Terminated(@),
                                    !.shell = [k \in StrategyIds |-> Terminated(@[k])]]
    /\ UNCHANGED <<pc, coreVars, file, fileMtime, positions, trades, reconciled, io, gov,
                   clockVars, caller>>

NextLauncher ==
    \/ LauncherStart
    \/ ManagerDies
    \/ DashboardCrashes
    \/ EngineExits
    \/ MonitorPoll
    \/ LauncherInterrupt
    \/ Cleanup

SpecLauncher == InitRecords /\ [][NextLauncher]_vars

\* C40, as claimed: the launcher whose monitor loop saw the manager dead ends
\* with no process it started still running: manager, current dashboard and
\* every strategy (the shell the launcher holds and the engine under it).
C40_NothingRunsAfterManagerDied ==
    (launcher.pc = "done" /\ launcher.left = "manager") =>
        /\ launcher.manager # "running"
        /\ launcher.dash # "running"
        /\ \A k \in StrategyIds :
               launcher.shell[k] # "running" /\ launcher.engine[k] # "running"

\* The part of C40 that holds: after the cleanup none of the processes the
\* launcher holds (manager, current dashboard, the strategies' shells) runs,
\* whatever made it leave the loop.
HeldProcessesTerminated ==
    launcher.pc = "done" =>
        /\ launcher.manager # "running"
        /\ launcher.dash # "running"
        /\ \A k \in StrategyIds : launcher.shell[k] # "running"

\* A poll that sees the manager dead leaves the loop and restarts nothing.
LoopLeftOnManagerDeath ==
    [][(launcher.pc = "monitor" /\ launcher.manager = "exited" /\ launcher'.pc = "monitor") =>
           launcher'.restarts = launcher.restarts]_vars

\* The launcher is done after the manager died, the shell of a strategy was
\* terminated and the strategy's engine is still running.
EngineOutlivesLauncher ==
    /\ launcher.pc = "done" /\ launcher.left = "manager"
    /\ \E k \in StrategyIds :
           launcher.shell[k] = "terminated" /\ launcher.engine[k] = "running"

\* A restarted dashboard was terminated by the cleanup after the manager died.
RestartedDashboardTerminated ==
    /\ launcher.pc = "done" /\ launcher.left = "manager"
    /\ launcher.restarts > 0 /\ launcher.dash = "terminated"

====
